---------------------------- MODULE Spec2Model ----------------------------
(***************************************************************************)
(* Model of the CivitAI downloader: the reference parser, the file-name    *)
(* sanitiser, the base-model normaliser and the directory router of        *)
(* utils.py, the artifact downloaders of downloader.py, the catalog client *)
(* of api_client.py, the writers of metadata_manager.py, and the per-model *)
(* pipeline and batch loop of model_processor.py.                          *)
(*                                                                         *)
(* Python str values are TLA+ strings; a character is a string of length   *)
(* one, read with SubSeq.                                                  *)
(***************************************************************************)
EXTENDS Integers, Sequences, FiniteSets, TLC

(***************************************************************************)
(* Python values.                                                          *)
(***************************************************************************)
\* Python's None.  Never equal to a model id, a name or a path of the model.
None == "<None>"

\* A dict key that is not present (dict.get then yields its default).
Absent == "<absent>"

SetMin(S) == CHOOSE x \in S : \A y \in S : x <= y

SetMax(S) == CHOOSE x \in S : \A y \in S : x >= y

Char(s, i) == SubSeq(s, i, i)

\* The characters i..j of s, clamped to the string as a Python slice is.
Slice(s, i, j) ==
    IF i > j \/ i > Len(s) THEN "" ELSE SubSeq(s, i, IF j > Len(s) THEN Len(s) ELSE j)

\* needle in hay  (Python's substring test on str)
Contains(hay, needle) ==
    \E i \in 1..(Len(hay) - Len(needle) + 1) :
        SubSeq(hay, i, i + Len(needle) - 1) = needle

\* s.endswith(suffix)
EndsWith(s, suffix) ==
    /\ Len(s) >= Len(suffix)
    /\ SubSeq(s, Len(s) - Len(suffix) + 1, Len(s)) = suffix

\* Characters str.strip() and str.isspace() treat as whitespace (the ones a
\* TLA+ string can hold: space, tab, newline, carriage return, form feed).
Whitespace == {" ", "\t", "\n", "\r", "\f"}

\* s.strip(): drops the leading and the trailing run of whitespace.
Strip(s) ==
    LET keep == {i \in 1..Len(s) : Char(s, i) \notin Whitespace}
    IN  IF keep = {} THEN "" ELSE SubSeq(s, SetMin(keep), SetMax(keep))

UpperToLower ==
    << <<"A", "a">>, <<"B", "b">>, <<"C", "c">>, <<"D", "d">>, <<"E", "e">>,
       <<"F", "f">>, <<"G", "g">>, <<"H", "h">>, <<"I", "i">>, <<"J", "j">>,
       <<"K", "k">>, <<"L", "l">>, <<"M", "m">>, <<"N", "n">>, <<"O", "o">>,
       <<"P", "p">>, <<"Q", "q">>, <<"R", "r">>, <<"S", "s">>, <<"T", "t">>,
       <<"U", "u">>, <<"V", "v">>, <<"W", "w">>, <<"X", "x">>, <<"Y", "y">>,
       <<"Z", "z">> >>

LowerChar(c) ==
    IF \E k \in 1..Len(UpperToLower) : UpperToLower[k][1] = c
    THEN UpperToLower[CHOOSE k \in 1..Len(UpperToLower) : UpperToLower[k][1] = c][2]
    ELSE c

RECURSIVE LowerFrom(_, _)
LowerFrom(s, i) ==
    IF i > Len(s) THEN "" ELSE LowerChar(Char(s, i)) \o LowerFrom(s, i + 1)

\* s.lower()
Lower(s) == LowerFrom(s, 1)

RECURSIVE ReplaceFrom(_, _, _, _)
ReplaceFrom(s, old, new, i) ==
    IF i > Len(s) THEN ""
    ELSE (IF Char(s, i) = old THEN new ELSE Char(s, i)) \o ReplaceFrom(s, old, new, i + 1)

\* s.replace(old, new) for a one-character old
Replace(s, old, new) == ReplaceFrom(s, old, new, 1)

Digits == {"0", "1", "2", "3", "4", "5", "6", "7", "8", "9"}

\* Length of the longest run of digits of s that starts at position i: what
\* the greedy \d+ consumes there (0 when there is no digit at i).
DigitRun(s, i) ==
    LET stop == {j \in i..(Len(s) + 1) : j = Len(s) + 1 \/ Char(s, j) \notin Digits}
    IN  IF i > Len(s) THEN 0 ELSE SetMin(stop) - i

(***************************************************************************)
(* utils.py                                                                *)
(***************************************************************************)
\* The character class [<>:"/\\|?*\n\r\t] of sanitize_filename.
IllegalChars == {"<", ">", ":", "\"", "/", "\\", "|", "?", "*", "\n", "\r", "\t"}

RECURSIVE RemoveIllegalFrom(_, _)
RemoveIllegalFrom(s, i) ==
    IF i > Len(s) THEN ""
    ELSE (IF Char(s, i) \in IllegalChars THEN "" ELSE Char(s, i))
         \o RemoveIllegalFrom(s, i + 1)

\* re.sub(r'[<>:"/\\|?*\n\r\t]', '', name)
RemoveIllegal(s) == RemoveIllegalFrom(s, 1)

\* Faulty variant: spaces are not replaced.
sanitize_filename_keeps_spaces(name) == Strip(RemoveIllegal(name))

sanitize_filename(name) == Replace(Strip(RemoveIllegal(name)), " ", "_")

ModelsPrefix == "models/"

VersionQuery == "?modelVersionId="

\* Positions where  models/(\d+)  matches.
MatchStarts(url) ==
    {i \in 1..Len(url) :
        /\ Slice(url, i, i + Len(ModelsPrefix) - 1) = ModelsPrefix
        /\ DigitRun(url, i + Len(ModelsPrefix)) >= 1}

\* Faulty variant: re.match in place of re.search, so only a match at the start of
\* the string counts.
parse_model_url_at_start(url) ==
    IF 1 \notin MatchStarts(url) THEN <<None, None>>
    ELSE LET a == 1 + Len(ModelsPrefix)
             n == DigitRun(url, a)
             q == a + n
             v == q + Len(VersionQuery)
             m == IF Slice(url, q, v - 1) = VersionQuery THEN DigitRun(url, v) ELSE 0
         IN  << SubSeq(url, a, a + n - 1),
                IF m >= 1 THEN SubSeq(url, v, v + m - 1) ELSE None >>

\* re.search(r'models/(\d+)(?:\?modelVersionId=(\d+))?', url): the leftmost
\* match; \d+ is greedy, and the optional group matches when it can.
parse_model_url(url) ==
    IF MatchStarts(url) = {} THEN <<None, None>>
    ELSE LET i  == SetMin(MatchStarts(url))
             a  == i + Len(ModelsPrefix)
             n  == DigitRun(url, a)
             q  == a + n
             v  == q + Len(VersionQuery)
             m  == IF Slice(url, q, v - 1) = VersionQuery THEN DigitRun(url, v) ELSE 0
         IN  << SubSeq(url, a, a + n - 1),
                IF m >= 1 THEN SubSeq(url, v, v + m - 1) ELSE None >>

BASE_MODEL_MAPPINGS ==
    << <<"flux.1 [dev]", "flux.1 [dev]">>,
       <<"flux.1 [schnell]", "flux.1 [schnell]">>,
       <<"flux1dev", "flux.1 [dev]">>,
       <<"flux1schnell", "flux.1 [schnell]">>,
       <<"flux dev", "flux.1 [dev]">>,
       <<"flux schnell", "flux.1 [schnell]">>,
       <<"sdxl 1.0", "sdxl 1.0">>,
       <<"sdxl", "sdxl 1.0">>,
       <<"sdxl turbo", "sdxl turbo">>,
       <<"illustrious xl v0.1", "illustrious xl v0.1">>,
       <<"illustrious", "illustrious xl v0.1">>,
       <<"pony", "pony">>,
       <<"pony diffusion xl", "pony">>,
       <<"sd 1.5", "sd 1.5">>,
       <<"sd1.5", "sd 1.5">>,
       <<"stable diffusion 1.5", "sd 1.5">>,
       <<"sd 2.1", "sd 2.1">>,
       <<"sd2.1", "sd 2.1">>,
       <<"hunyuan-dit", "hunyuan-dit">>,
       <<"hunyuan video", "hunyuan video">>,
       <<"kolors", "kolors">>,
       <<"lumina-t2x", "lumina-t2x">>,
       <<"mochi", "mochi">>,
       <<"ltx-video", "ltx-video">>,
       <<"cogvideox-2b", "cogvideox-2b">>,
       <<"cogvideox-5b", "cogvideox-5b">>,
       <<"noobai xl", "noobai xl">> >>

MODEL_TYPE_DIRS ==
    << <<"checkpoint", "flux.1 [dev]", "FLUX/FLUX.1-Dev/Checkpoint">>,
       <<"checkpoint merge", "flux.1 [dev]", "FLUX/FLUX.1-Dev/Checkpoint">>,
       <<"lora", "flux.1 [dev]", "FLUX/FLUX.1-Dev/Lora">>,
       <<"textualinversion", "flux.1 [dev]", "FLUX/FLUX.1-Dev/Embeddings">>,
       <<"controlnet", "flux.1 [dev]", "FLUX/FLUX.1-Dev/ControlNet">>,
       <<"checkpoint", "flux.1 [schnell]", "FLUX/FLUX.1-Schnell/Checkpoint">>,
       <<"checkpoint merge", "flux.1 [schnell]", "FLUX/FLUX.1-Schnell/Checkpoint">>,
       <<"lora", "flux.1 [schnell]", "FLUX/FLUX.1-Schnell/Lora">>,
       <<"textualinversion", "flux.1 [schnell]", "FLUX/FLUX.1-Schnell/Embeddings">>,
       <<"controlnet", "flux.1 [schnell]", "FLUX/FLUX.1-Schnell/ControlNet">>,
       <<"checkpoint", "flux", "FLUX/General/Checkpoint">>,
       <<"checkpoint merge", "flux", "FLUX/General/Checkpoint">>,
       <<"lora", "flux", "FLUX/General/Lora">>,
       <<"textualinversion", "flux", "FLUX/General/Embeddings">>,
       <<"controlnet", "flux", "FLUX/General/ControlNet">>,
       <<"checkpoint", "illustrious xl v0.1", "SDXL/Illustrious/Checkpoint">>,
       <<"checkpoint merge", "illustrious xl v0.1", "SDXL/Illustrious/Checkpoint">>,
       <<"lora", "illustrious xl v0.1", "SDXL/Illustrious/Lora">>,
       <<"textualinversion", "illustrious xl v0.1", "SDXL/Illustrious/Embeddings">>,
       <<"controlnet", "illustrious xl v0.1", "SDXL/Illustrious/ControlNet">>,
       <<"checkpoint", "pony", "SDXL/Pony/Checkpoint">>,
       <<"checkpoint merge", "pony", "SDXL/Pony/Checkpoint">>,
       <<"lora", "pony", "SDXL/Pony/Lora">>,
       <<"textualinversion", "pony", "SDXL/Pony/Embeddings">>,
       <<"controlnet", "pony", "SDXL/Pony/ControlNet">>,
       <<"checkpoint", "sdxl 1.0", "SDXL/Base/Checkpoint">>,
       <<"checkpoint merge", "sdxl 1.0", "SDXL/Base/Checkpoint">>,
       <<"lora", "sdxl 1.0", "SDXL/Base/Lora">>,
       <<"textualinversion", "sdxl 1.0", "SDXL/Base/Embeddings">>,
       <<"hypernetwork", "sdxl 1.0", "SDXL/Base/Hypernetworks">>,
       <<"controlnet", "sdxl 1.0", "SDXL/Base/ControlNet">>,
       <<"checkpoint", "sdxl turbo", "SDXL/Turbo/Checkpoint">>,
       <<"checkpoint merge", "sdxl turbo", "SDXL/Turbo/Checkpoint">>,
       <<"lora", "sdxl turbo", "SDXL/Turbo/Lora">>,
       <<"checkpoint", "sd 1.5", "SD15/Checkpoint">>,
       <<"checkpoint merge", "sd 1.5", "SD15/Checkpoint">>,
       <<"lora", "sd 1.5", "SD15/Lora">>,
       <<"textualinversion", "sd 1.5", "SD15/Embeddings">>,
       <<"hypernetwork", "sd 1.5", "SD15/Hypernetworks">>,
       <<"controlnet", "sd 1.5", "SD15/ControlNet">>,
       <<"checkpoint", "sd 2.1", "SD21/Checkpoint">>,
       <<"checkpoint merge", "sd 2.1", "SD21/Checkpoint">>,
       <<"lora", "sd 2.1", "SD21/Lora">>,
       <<"textualinversion", "sd 2.1", "SD21/Embeddings">>,
       <<"controlnet", "sd 2.1", "SD21/ControlNet">>,
       <<"checkpoint", "hunyuan-dit", "Hunyuan/Hunyuan-DiT/Checkpoint">>,
       <<"checkpoint merge", "hunyuan-dit", "Hunyuan/Hunyuan-DiT/Checkpoint">>,
       <<"lora", "hunyuan-dit", "Hunyuan/Hunyuan-DiT/Lora">>,
       <<"checkpoint", "hunyuan video", "Hunyuan/Hunyuan-Video/Checkpoint">>,
       <<"checkpoint merge", "hunyuan video", "Hunyuan/Hunyuan-Video/Checkpoint">>,
       <<"lora", "hunyuan video", "Hunyuan/Hunyuan-Video/Lora">>,
       <<"checkpoint", "kolors", "Kolors/Checkpoint">>,
       <<"checkpoint merge", "kolors", "Kolors/Checkpoint">>,
       <<"lora", "kolors", "Kolors/Lora">>,
       <<"textualinversion", "kolors", "Kolors/Embeddings">>,
       <<"controlnet", "kolors", "Kolors/ControlNet">>,
       <<"checkpoint", "lumina-t2x", "Lumina/Checkpoint">>,
       <<"checkpoint merge", "lumina-t2x", "Lumina/Checkpoint">>,
       <<"lora", "lumina-t2x", "Lumina/Lora">>,
       <<"checkpoint", "mochi", "Mochi/Checkpoint">>,
       <<"checkpoint merge", "mochi", "Mochi/Checkpoint">>,
       <<"lora", "mochi", "Mochi/Lora">>,
       <<"checkpoint", "ltx-video", "LTX-Video/Checkpoint">>,
       <<"checkpoint merge", "ltx-video", "LTX-Video/Checkpoint">>,
       <<"lora", "ltx-video", "LTX-Video/Lora">>,
       <<"checkpoint", "cogvideox-2b", "CogVideoX/2B/Checkpoint">>,
       <<"checkpoint merge", "cogvideox-2b", "CogVideoX/2B/Checkpoint">>,
       <<"lora", "cogvideox-2b", "CogVideoX/2B/Lora">>,
       <<"checkpoint", "cogvideox-5b", "CogVideoX/5B/Checkpoint">>,
       <<"checkpoint merge", "cogvideox-5b", "CogVideoX/5B/Checkpoint">>,
       <<"lora", "cogvideox-5b", "CogVideoX/5B/Lora">>,
       <<"checkpoint", "noobai xl", "NoobAI/XL/Checkpoint">>,
       <<"checkpoint merge", "noobai xl", "NoobAI/XL/Checkpoint">>,
       <<"lora", "noobai xl", "NoobAI/XL/Lora">>,
       <<"textualinversion", "noobai xl", "NoobAI/XL/Embeddings">>,
       <<"checkpoint", "unknown", "Other/Checkpoint">>,
       <<"checkpoint merge", "unknown", "Other/Checkpoint">>,
       <<"lora", "unknown", "Other/Lora">>,
       <<"textualinversion", "unknown", "Other/Embeddings">>,
       <<"hypernetwork", "unknown", "Other/Hypernetworks">>,
       <<"controlnet", "unknown", "Other/ControlNet">> >>

\* Config.BASE_MODEL_MAPPINGS as a dict: membership and lookup by key.
InMappings(k) == \E n \in 1..Len(BASE_MODEL_MAPPINGS) : BASE_MODEL_MAPPINGS[n][1] = k

MappingOf(k) ==
    BASE_MODEL_MAPPINGS[CHOOSE n \in 1..Len(BASE_MODEL_MAPPINGS) :
                            BASE_MODEL_MAPPINGS[n][1] = k][2]

\* Faulty variant: only a key contained in base_model is accepted.
PartialMatches_key_in_input(base_model) ==
    {n \in 1..Len(BASE_MODEL_MAPPINGS) :
        Contains(base_model, BASE_MODEL_MAPPINGS[n][1])}

\* The entries the partial-match loop accepts for base_model, as indices in
\* definition order (dict iteration order).
PartialMatches(base_model) ==
    {n \in 1..Len(BASE_MODEL_MAPPINGS) :
        \/ Contains(base_model, BASE_MODEL_MAPPINGS[n][1])
        \/ Contains(BASE_MODEL_MAPPINGS[n][1], base_model)}

\* version.get("baseModel", "")
BaseModelField(version) ==
    IF version.baseModel = Absent THEN "" ELSE version.baseModel

\* get_base_model_key raises AttributeError when the record holds
\* "baseModel": null (None has no lower()).
get_base_model_key_raises(version) == BaseModelField(version) = None

\* Faulty variant: the exact lookup of lines 33-34 is missing.
get_base_model_key_partial_only(version) ==
    LET base_model == Strip(Lower(BaseModelField(version)))
    IN  IF base_model = "" THEN "unknown"
        ELSE IF PartialMatches(base_model) # {}
             THEN BASE_MODEL_MAPPINGS[SetMin(PartialMatches(base_model))][2]
        ELSE "unknown"

\* Faulty variant: the empty check of lines 28-30 is missing; "" is a substring of
\* every key, so the partial-match loop returns the first entry's value.
get_base_model_key_no_empty_check(version) ==
    LET base_model == Strip(Lower(BaseModelField(version)))
    IN  IF InMappings(base_model) THEN MappingOf(base_model)
        ELSE IF base_model = "" THEN BASE_MODEL_MAPPINGS[1][2]
        ELSE IF PartialMatches(base_model) # {}
             THEN BASE_MODEL_MAPPINGS[SetMin(PartialMatches(base_model))][2]
        ELSE "unknown"

get_base_model_key(version) ==
    LET base_model == Strip(Lower(BaseModelField(version)))
    IN  IF base_model = "" THEN "unknown"
        ELSE IF InMappings(base_model) THEN MappingOf(base_model)
        ELSE IF PartialMatches(base_model) # {}
             THEN BASE_MODEL_MAPPINGS[SetMin(PartialMatches(base_model))][2]
        ELSE "unknown"

InTypeDirs(t, k) ==
    \E n \in 1..Len(MODEL_TYPE_DIRS) :
        MODEL_TYPE_DIRS[n][1] = t /\ MODEL_TYPE_DIRS[n][2] = k

TypeDirOf(t, k) ==
    MODEL_TYPE_DIRS[CHOOSE n \in 1..Len(MODEL_TYPE_DIRS) :
                        MODEL_TYPE_DIRS[n][1] = t /\ MODEL_TYPE_DIRS[n][2] = k][3]

\* Config.BASE_MODEL_DIR
BASE_MODEL_DIR == "N:/Models"

\* Faulty variant: a miss goes straight to the global default.
target_subdir_no_type_fallback(model_type, base_model_key) ==
    IF InTypeDirs(Lower(model_type), base_model_key)
    THEN TypeDirOf(Lower(model_type), base_model_key)
    ELSE "Other/Unknown"

\* The subdirectory determine_target_dir selects (lines 49-59).
target_subdir(model_type, base_model_key) ==
    LET model_type_lower == Lower(model_type)
    IN  IF InTypeDirs(model_type_lower, base_model_key)
        THEN TypeDirOf(model_type_lower, base_model_key)
        ELSE IF InTypeDirs(model_type_lower, "unknown")
             THEN TypeDirOf(model_type_lower, "unknown")
             ELSE "Other/Unknown"

\* Config.BASE_MODEL_DIR / subdir / base_name
determine_target_dir(model_type, base_model_key, base_name) ==
    BASE_MODEL_DIR \o "/" \o target_subdir(model_type, base_model_key) \o "/" \o base_name

(***************************************************************************)
(* Python dicts: functions over their keys.                                *)
(***************************************************************************)
EmptyDict == <<>>

\* d[k] = v
DictPut(d, k, v) == [x \in (DOMAIN d) \cup {k} |-> IF x = k THEN v ELSE d[x]]

\* An optional record: <<>> is None, <<r>> is the record r.
NoneRec == <<>>

Some(r) == <<r>>

(***************************************************************************)
(* The catalog behind the API, and the references fed to the batch.        *)
(***************************************************************************)
\* Longest batch given to process_multiple_models.
MaxBatch == 2

FileDesc(t, n, u) == [type |-> t, name |-> n, downloadUrl |-> u]

ImageDesc(u) == [url |-> u]

\* Version records the API can return, by version id.
CatalogVersions(version_id) ==
    CASE version_id = "9" ->
           {[id |-> 9, baseModel |-> "SDXL 1.0",
             files |-> <<FileDesc("Model", "foo.safetensors", "https://d/9")>>,
             images |-> <<>>]}
      [] version_id = "8" ->
           {[id |-> 8, baseModel |-> Absent,
             files |-> <<FileDesc("Training Data", "set.zip", "https://d/8a")>>,
             images |-> <<ImageDesc(None), ImageDesc("https://i/8.PNG")>>]}
      [] version_id = "7" ->
           {[id |-> 7, baseModel |-> " Pony ",
             files |-> <<FileDesc("Model", "b.ckpt", "https://d/7a"),
                         FileDesc("Model", "c.safetensors", "https://d/7b")>>,
             images |-> <<>>]}
      [] version_id = "5" ->
           {[id |-> 5, baseModel |-> None,
             files |-> <<>>, images |-> <<>>],
            [id |-> 5, baseModel |-> "Weird",
             files |-> <<FileDesc("Model", Absent, "https://d/5")>>,
             images |-> <<>>]}
      [] OTHER -> {}

\* Model records the API can return, by model id; modelVersions lists the
\* ids of the model's versions, latest first.
CatalogModels(model_id) ==
    CASE model_id = "1" ->
           {[name |-> "Foo Bar", type |-> "LoRA", modelVersions |-> <<9>>,
             tags |-> "list"]}
      [] model_id = "2" ->
           {[name |-> "a:b c", type |-> "Checkpoint", modelVersions |-> <<8, 7>>,
             tags |-> "list"]}
      [] model_id = "3" ->
           {[name |-> Absent, type |-> "Poses", modelVersions |-> <<5>>,
             tags |-> "list"],
            [name |-> "T", type |-> "LoRA", modelVersions |-> <<9>>,
             tags |-> None],
            [name |-> "E", type |-> "VAE", modelVersions |-> <<>>,
             tags |-> "list"]}
      [] OTHER -> {}

\* An item of model_list: a str, a (model_id, version_id) pair, or anything
\* else.
UrlItem(u) == [kind |-> "str", url |-> u, model_id |-> None, version_id |-> None]

PairItem(m, v) == [kind |-> "tuple", url |-> None, model_id |-> m, version_id |-> v]

OtherItem == [kind |-> "other", url |-> None, model_id |-> None, version_id |-> None]

\* str(item)
ItemStr(item) ==
    CASE item.kind = "str" -> item.url
      [] item.kind = "tuple" -> "(" \o item.model_id \o ", " \o item.version_id \o ")"
      [] OTHER -> "42"

References ==
    { UrlItem("https://civitai.com/models/1"),
      UrlItem("https://civitai.com/models/2?modelVersionId=7"),
      UrlItem("https://civitai.com/models/2"),
      UrlItem("not a url"),
      PairItem("3", None),
      OtherItem }

RECURSIVE SeqsUpTo(_, _)
SeqsUpTo(S, n) ==
    IF n = 0 THEN {<<>>}
    ELSE LET shorter == SeqsUpTo(S, n - 1)
         IN  shorter \cup {Append(s, x) : s \in {t \in shorter : Len(t) = n - 1}, x \in S}

Batches == SeqsUpTo(References, MaxBatch)

(***************************************************************************)
(* State.                                                                  *)
(***************************************************************************)
VARIABLES
    model_list,   \* the argument of process_multiple_models
    idx,          \* how many items of model_list the loop has taken
    results,      \* the list process_multiple_models builds
    pc,           \* where the batch is: "loop", a stage of process_model, "returned"
    cur,          \* the locals of the running process_model call
    dirs,         \* directories that exist under the base directory
    files,        \* path -> "complete" | "partial" | "text": files on disk
    sidecars,     \* metadata path -> the downloaded_files manifest written there
    requests,     \* every HTTP GET issued, in order:
                  \*   <<item number, "model" | "version" | "model_file" | "image", URL, ok>>
    writes,       \* every directory or file created, in order: <<item number, path>>
    stages,       \* every stage of process_model entered, in order: <<item number, stage>>
    calls,        \* every process_model call: <<item number, model_id, version_id>>
    raised,       \* every exception raised inside process_model: <<item number, text>>
    fn,           \* the function applied on its own: name, or "none"
    arg,          \* its argument
    ret           \* its return value, once called

vars == <<model_list, idx, results, pc, cur, dirs, files, sidecars, requests,
          writes, stages, calls, raised, fn, arg, ret>>

batch_vars == <<model_list, idx, results, pc, cur, dirs, files, sidecars,
                requests, writes, stages, calls, raised>>

call_vars == <<fn, arg, ret>>

NoCur ==
    [model_id |-> None, version_id |-> None, original_url |-> None,
     model |-> NoneRec, version |-> NoneRec, raw_name |-> None,
     base_name |-> None, target_dir |-> None,
     downloaded_files |-> EmptyDict, downloaded_images |-> <<>>]

NotCalled == "<not called>"

BatchIdle ==
    /\ idx = 0
    /\ results = <<>>
    /\ cur = NoCur
    /\ dirs = {}
    /\ files = EmptyDict
    /\ sidecars = EmptyDict
    /\ requests = <<>>
    /\ writes = <<>>
    /\ stages = <<>>
    /\ calls = <<>>
    /\ raised = <<>>

NoCall == fn = "none" /\ arg = None /\ ret = NotCalled

\* process_multiple_models is called with a list of references.
Init ==
    /\ model_list \in Batches
    /\ pc = "loop"
    /\ BatchIdle
    /\ NoCall

(***************************************************************************)
(* api_client.py                                                           *)
(***************************************************************************)
\* Python truth value of an id or URL: None and "" are false.
Falsy(v) == v = None \/ v = ""

\* Config.BASE_URL
BASE_URL == "https://civitai.com/api/v1"

\* A response that makes session.get or raise_for_status raise.
HTTPError == <<>>

\* What the model request can answer: an error, or a record of the catalog.
ModelResponses(model_id) == {HTTPError} \cup {Some(m) : m \in CatalogModels(model_id)}

VersionResponses(version_id) ==
    {HTTPError} \cup {Some(v) : v \in CatalogVersions(version_id)}

\* The version the second request asks for, given the model answer: the
\* requested one or, without one, the first of modelVersions; None when the
\* model lists no version.
fetch_version_id(model, version_id) ==
    IF ~Falsy(version_id) THEN version_id
    ELSE IF model.modelVersions = <<>> THEN None
    ELSE ToString(model.modelVersions[1])

\* The GETs fetch_model_info issues, each with whether it was answered: the
\* version request is made only once the model request has succeeded.
fetch_requests(model_id, version_id, model_resp, version_resp) ==
    <<<<"model", BASE_URL \o "/models/" \o model_id, model_resp # HTTPError>>>>
    \o (IF model_resp = HTTPError \/ fetch_version_id(model_resp[1], version_id) = None
        THEN <<>>
        ELSE <<<<"version",
                 BASE_URL \o "/model-versions/"
                    \o fetch_version_id(model_resp[1], version_id),
                 version_resp # HTTPError>>>>)

\* fetch_model_info: <<model, version>>, or <<None, None>> on any error.
fetch_model_info(model_id, version_id, model_resp, version_resp) ==
    IF model_resp = HTTPError THEN <<NoneRec, NoneRec>>
    ELSE IF fetch_version_id(model_resp[1], version_id) = None THEN <<NoneRec, NoneRec>>
    ELSE IF version_resp = HTTPError THEN <<NoneRec, NoneRec>>
    ELSE <<model_resp, version_resp>>

(***************************************************************************)
(* downloader.py                                                           *)
(***************************************************************************)
\* Config.MAX_PREVIEW_IMAGES
MAX_PREVIEW_IMAGES == 3

\* How one download_file call can go: the body is streamed to the file; the
\* request fails before the file is opened; or the stream (or a write)
\* fails after the file was opened for writing.
DownloadOutcomes == {"ok", "request_error", "stream_error"}

\* download_file's return value.
download_file(outcome) == outcome = "ok"

\* The file at path after download_file: open(path, 'wb') truncates it, and
\* nothing removes it when the stream fails.
file_after_download(fs, path, outcome) ==
    CASE outcome = "ok" -> DictPut(fs, path, "complete")
      [] outcome = "stream_error" -> DictPut(fs, path, "partial")
      [] OTHER -> fs

\* The loop of download_model_file over files[i..]: the first "Model" file
\* named *.safetensors ends it; the first other "Model" file is kept as
\* fallback.  Yields the index chosen (0: none), or -1 when a visited "Model"
\* descriptor has no name (KeyError).
RECURSIVE scan_model_files(_, _, _)
scan_model_files(fs, i, other_model_file) ==
    IF i > Len(fs) THEN other_model_file
    ELSE IF fs[i].type = "Model"
         THEN IF fs[i].name = Absent THEN -1
              ELSE IF EndsWith(fs[i].name, ".safetensors") THEN i
              ELSE scan_model_files(fs, i + 1,
                                    IF other_model_file = 0 THEN i ELSE other_model_file)
         ELSE scan_model_files(fs, i + 1, other_model_file)

\* Faulty variant: the first "Model" file is taken whatever its extension.
select_first_model_file(fs) ==
    LET models == {i \in 1..Len(fs) : fs[i].type = "Model"}
    IN  IF models = {} THEN 0 ELSE SetMin(models)

\* safetensors_file or other_model_file, as an index into files.
select_model_file(fs) == scan_model_files(fs, 1, 0)

\* download_model_file raises KeyError on a descriptor without name or
\* downloadUrl.
download_model_file_raises(version) ==
    \/ select_model_file(version.files) = -1
    \/ /\ select_model_file(version.files) > 0
       /\ version.files[select_model_file(version.files)].downloadUrl = Absent

\* download_model_file's return value: the file name, or None.
download_model_file(version, outcome) ==
    IF select_model_file(version.files) = 0 THEN None
    ELSE IF download_file(outcome)
         THEN version.files[select_model_file(version.files)].name
         ELSE None

ImageExts == <<".png", ".jpeg", ".jpg", ".webp">>

\* The extension of the saved image: the URL's, when it ends in a known
\* one (compared in lower case), else ".jpg".
image_ext(image_url) ==
    LET hit == {k \in 1..Len(ImageExts) : EndsWith(Lower(image_url), ImageExts[k])}
    IN  IF hit = {} THEN ".jpg" ELSE ImageExts[SetMin(hit)]

Pad2(n) == IF n < 10 THEN "0" \o ToString(n) ELSE ToString(n)

\* preview_{i+1:02d}{ext}, for the entry at position n = i + 1
image_filename(n, image_url) == "preview_" \o Pad2(n) \o image_ext(image_url)

\* Faulty variant: the list is not cut to max_images.
attempted_images_uncut(images, max_images) ==
    {n \in 1..Len(images) : ~Falsy(images[n].url)}

\* The positions of images[:max_images] that carry a URL: the downloads
\* download_images attempts.
attempted_images(images, max_images) ==
    {n \in 1..Len(images) : n <= max_images /\ ~Falsy(images[n].url)}

\* The elements of a set of numbers in increasing order.
RECURSIVE Ascending(_)
Ascending(S) == IF S = {} THEN <<>> ELSE <<SetMin(S)>> \o Ascending(S \ {SetMin(S)})

\* download_images's return value: the saved paths, in list order.  outs
\* gives the outcome of each attempted download.
download_images(images, target_dir, max_images, outs) ==
    LET saved == {n \in attempted_images(images, max_images) : download_file(outs[n])}
        order == Ascending(saved)
    IN  [k \in 1..Len(order) |->
            target_dir \o "/" \o image_filename(order[k], images[order[k]].url)]

\* The disk after download_images.
files_after_images(fs, images, target_dir, max_images, outs) ==
    LET att     == attempted_images(images, max_images)
        path(n) == target_dir \o "/" \o image_filename(n, images[n].url)
        written == {n \in att : outs[n] # "request_error"}
    IN  [p \in (DOMAIN fs) \cup {path(n) : n \in written} |->
            IF \E n \in written : path(n) = p
            THEN (IF outs[CHOOSE n \in written : path(n) = p] = "ok"
                  THEN "complete" ELSE "partial")
            ELSE fs[p]]

\* Path.name: the last component of a path.
PathName(p) ==
    LET slashes == {i \in 1..Len(p) : Char(p, i) = "/"}
    IN  IF slashes = {} THEN p ELSE Slice(p, SetMax(slashes) + 1, Len(p))

(***************************************************************************)
(* model_processor.py: process_model, one action per stage.                *)
(***************************************************************************)
\* process_model returns, and the batch loop appends what it returned.
Return(result) ==
    /\ results' = Append(results, result)
    /\ cur' = NoCur
    /\ pc' = "loop"

\* Faulty variant: the handler lets the exception out of process_model, so it leaves
\* process_multiple_models too and the batch is over without a result list.
handle_exception_reraises(e) ==
    /\ pc' = "aborted"
    /\ cur' = NoCur
    /\ UNCHANGED results

\* Faulty variant: the handler starts the run again from the fetch.
handle_exception_retries(e) ==
    /\ pc' = "fetch"
    /\ UNCHANGED <<results, cur>>

\* The handler  except Exception as e  of process_model (lines 110-117).
handle_exception(e) ==
    Return([success |-> FALSE, error |-> "Unexpected error: " \o e,
            model_id |-> cur.model_id, version_id |-> cur.version_id])

\* A statement of the try block raises e.
Raise(e) ==
    /\ raised' = Append(raised, <<idx, e>>)
    /\ handle_exception(e)

FetchFailure == "Failed to fetch model information from API"

\* Faulty variant: the check of line 40 is missing.
fetch_failed_unchecked(model, version) == FALSE

\* if not model or not version  (line 40)
fetch_failed(model, version) == model = NoneRec \/ version = NoneRec

\* Lines 39-46: fetch the records; without both of them the call fails.
Fetching ==
    /\ pc = "fetch"
    /\ stages' = Append(stages, <<idx, "Fetching">>)
    /\ \E model_resp \in ModelResponses(cur.model_id) :
         \E version_resp \in
               (IF model_resp = HTTPError
                   \/ fetch_version_id(model_resp[1], cur.version_id) = None
                THEN {HTTPError}
                ELSE VersionResponses(fetch_version_id(model_resp[1], cur.version_id))) :
           LET got == fetch_model_info(cur.model_id, cur.version_id,
                                       model_resp, version_resp)
               reqs == fetch_requests(cur.model_id, cur.version_id,
                                      model_resp, version_resp)
           IN  /\ requests' = requests \o [k \in 1..Len(reqs) |-> <<idx>> \o reqs[k]]
               /\ IF fetch_failed(got[1], got[2])
                  THEN Return([success |-> FALSE, error |-> FetchFailure,
                               model_id |-> cur.model_id,
                               version_id |-> cur.version_id])
                  ELSE /\ cur' = [cur EXCEPT !.model = got[1], !.version = got[2]]
                       /\ pc' = "classify"
                       /\ UNCHANGED results
    /\ UNCHANGED <<model_list, idx, dirs, files, sidecars, writes, calls, raised,
                   call_vars>>

\* Faulty variant: the parts are joined without the underscores.
folder_name_unseparated(raw_name, model_id, version_id) ==
    sanitize_filename(raw_name) \o model_id \o version_id

\* f"{clean_name}_{model_id}_{version['id']}"
folder_name(raw_name, model_id, version_id) ==
    sanitize_filename(raw_name) \o "_" \o model_id \o "_" \o version_id

\* Lines 48-55: the folder name, the classification key and the target
\* directory, which determine_target_dir creates (mkdir(parents=True,
\* exist_ok=True) can fail with OSError).  model.get on None raises.
Classifying ==
    /\ pc = "classify"
    /\ stages' = Append(stages, <<idx, "Classifying">>)
    /\ IF cur.model = NoneRec \/ cur.version = NoneRec
       THEN /\ Raise("'NoneType' object has no attribute 'get'")
            /\ UNCHANGED <<dirs, writes>>
       ELSE
       LET model     == cur.model[1]
           version   == cur.version[1]
           raw_name  == IF model.name = Absent THEN "Model_" \o cur.model_id
                        ELSE model.name
           base_name == folder_name(raw_name, cur.model_id, ToString(version.id))
       IN  IF get_base_model_key_raises(version)
           THEN /\ Raise("'NoneType' object has no attribute 'lower'")
                /\ UNCHANGED <<dirs, writes>>
           ELSE LET target_dir ==
                      determine_target_dir(model.type, get_base_model_key(version),
                                           base_name)
                IN  \/ /\ Raise("[Errno 13] Permission denied")
                       /\ UNCHANGED <<dirs, writes>>
                    \/ /\ dirs' = dirs \cup {target_dir}
                       /\ writes' = Append(writes, <<idx, target_dir>>)
                       /\ cur' = [cur EXCEPT !.raw_name = raw_name,
                                             !.base_name = base_name,
                                             !.target_dir = target_dir]
                       /\ pc' = "model_file"
                       /\ UNCHANGED <<results, raised>>
    /\ UNCHANGED <<model_list, idx, files, sidecars, requests, calls, call_vars>>

\* Faulty variant: a missing model file ends the run with a failure.
record_model_file_or_fail(model_filename) ==
    IF model_filename = None
    THEN /\ Return([success |-> FALSE, error |-> "Failed to download model file",
                    model_id |-> cur.model_id, version_id |-> cur.version_id])
         /\ UNCHANGED raised
    ELSE /\ cur' = [cur EXCEPT !.downloaded_files = DictPut(@, "model_file", model_filename)]
         /\ pc' = "images"
         /\ UNCHANGED <<results, raised>>

\* Faulty variant: the manifest gets the key whatever download_model_file returned.
record_model_file_always(model_filename) ==
    /\ cur' = [cur EXCEPT !.downloaded_files = DictPut(@, "model_file", model_filename)]
    /\ pc' = "images"
    /\ UNCHANGED <<results, raised>>

\* Lines 66-70: a file name goes into the manifest; without one the run
\* goes on to the images all the same.
record_model_file(model_filename) ==
    /\ cur' = [cur EXCEPT !.downloaded_files =
                  IF model_filename # None THEN DictPut(@, "model_file", model_filename)
                  ELSE @]
    /\ pc' = "images"
    /\ UNCHANGED <<results, raised>>

\* The paths a download has written, given how each went.
written_paths(paths, outs) ==
    SelectSeq([k \in 1..Len(paths) |-> IF outs[k] = "request_error" THEN None ELSE paths[k]],
              LAMBDA p : p # None)

\* Lines 61-70: the model file, best effort.
DownloadingModel ==
    /\ pc = "model_file"
    /\ stages' = Append(stages, <<idx, "DownloadingModel">>)
    /\ LET version == cur.version[1]
           n       == select_model_file(version.files)
       IN  IF download_model_file_raises(version)
           THEN /\ Raise("'name'")
                /\ UNCHANGED <<files, requests, writes>>
           ELSE IF n = 0
           THEN /\ record_model_file(download_model_file(version, "ok"))
                /\ UNCHANGED <<files, requests, writes>>
           ELSE \E outcome \in DownloadOutcomes :
                  LET path == cur.target_dir \o "/" \o version.files[n].name
                  IN  /\ requests' = Append(requests,
                                            <<idx, "model_file", version.files[n].downloadUrl,
                                              download_file(outcome)>>)
                      /\ files' = file_after_download(files, path, outcome)
                      /\ writes' = writes
                            \o [k \in 1..Len(written_paths(<<path>>, <<outcome>>)) |->
                                   <<idx, path>>]
                      /\ record_model_file(download_model_file(version, outcome))
    /\ UNCHANGED <<model_list, idx, dirs, sidecars, calls, call_vars>>

\* Faulty variant: the images key is set also for an empty list.
record_images_always(downloaded_images) ==
    cur' = [cur EXCEPT
              !.downloaded_images = downloaded_images,
              !.downloaded_files =
                 DictPut(@, "images",
                         [k \in 1..Len(downloaded_images) |->
                             PathName(downloaded_images[k])])]

\* Lines 75-79: the names of the saved images go into the manifest, when
\* there are any.
record_images(downloaded_images) ==
    cur' = [cur EXCEPT
              !.downloaded_images = downloaded_images,
              !.downloaded_files =
                 IF downloaded_images # <<>>
                 THEN DictPut(@, "images",
                              [k \in 1..Len(downloaded_images) |->
                                  PathName(downloaded_images[k])])
                 ELSE @]

\* Lines 72-79: the preview images, best effort.
DownloadingImages ==
    /\ pc = "images"
    /\ stages' = Append(stages, <<idx, "DownloadingImages">>)
    /\ LET images == cur.version[1].images
           att    == attempted_images(images, MAX_PREVIEW_IMAGES)
           order  == Ascending(att)
           paths  == [k \in 1..Len(order) |->
                        cur.target_dir \o "/"
                           \o image_filename(order[k], images[order[k]].url)]
       IN  \E outs \in [att -> DownloadOutcomes] :
             /\ requests' = requests
                   \o [k \in 1..Len(order) |->
                          <<idx, "image", images[order[k]].url,
                            download_file(outs[order[k]])>>]
             /\ files' = files_after_images(files, images, cur.target_dir,
                                            MAX_PREVIEW_IMAGES, outs)
             /\ LET w == written_paths(paths, [k \in 1..Len(order) |-> outs[order[k]]])
                IN  writes' = writes \o [k \in 1..Len(w) |-> <<idx, w[k]>>]
             /\ record_images(download_images(images, cur.target_dir,
                                              MAX_PREVIEW_IMAGES, outs))
             /\ pc' = "html"
    /\ UNCHANGED <<model_list, idx, results, dirs, sidecars, calls, raised, call_vars>>

\* How a write of save_html_info or save_metadata can go.
WriteOutcomes == {"ok", "io_error"}

\* save_html_info's return value: the path written, or None.
save_html_info(target_dir, base_name, outcome) ==
    IF outcome = "ok" THEN target_dir \o "/" \o base_name \o "_info.html" ELSE None

\* save_metadata's return value: the path written, or None.
save_metadata(target_dir, base_name, outcome) ==
    IF outcome = "ok" THEN target_dir \o "/" \o base_name \o "_metadata.json" ELSE None

\* generate_model_html iterates model.get('tags', []): TypeError on null.
generate_model_html_raises(model) == model.tags = None

\* Lines 81-88: render the page and write it.
Documenting ==
    /\ pc = "html"
    /\ stages' = Append(stages, <<idx, "Documenting">>)
    /\ IF generate_model_html_raises(cur.model[1])
       THEN /\ Raise("'NoneType' object is not iterable")
            /\ UNCHANGED <<files, writes>>
       ELSE \E outcome \in WriteOutcomes :
              LET html_path == save_html_info(cur.target_dir, cur.base_name, outcome)
              IN  /\ files' = IF html_path # None THEN DictPut(files, html_path, "text")
                              ELSE files
                  /\ writes' = IF html_path # None
                               THEN Append(writes, <<idx, html_path>>) ELSE writes
                  /\ cur' = [cur EXCEPT !.downloaded_files =
                                IF html_path # None
                                THEN DictPut(@, "html_info", PathName(html_path))
                                ELSE @]
                  /\ pc' = "metadata"
                  /\ UNCHANGED <<results, raised>>
    /\ UNCHANGED <<model_list, idx, dirs, sidecars, requests, calls, call_vars>>

\* Faulty variant: the run counts as a success only with both documents written.
success_result_needs_documents(c, downloaded_files) ==
    [success |-> {"html_info", "metadata"} \subseteq DOMAIN downloaded_files,
     model_name |-> c.raw_name, model_id |-> c.model_id,
     version_id |-> c.version[1].id, target_directory |-> c.target_dir,
     downloaded_files |-> downloaded_files, base_name |-> c.base_name]

\* The dict process_model returns on success (lines 100-108).
success_result(c, downloaded_files) ==
    [success |-> TRUE, model_name |-> c.raw_name, model_id |-> c.model_id,
     version_id |-> c.version[1].id, target_directory |-> c.target_dir,
     downloaded_files |-> downloaded_files, base_name |-> c.base_name]

\* Lines 90-108: write the sidecar with the manifest so far, then return.
Persisting ==
    /\ pc = "metadata"
    /\ stages' = Append(stages, <<idx, "Persisting">>)
    /\ \E outcome \in WriteOutcomes :
         LET metadata_path == save_metadata(cur.target_dir, cur.base_name, outcome)
         IN  /\ files' = IF metadata_path # None
                         THEN DictPut(files, metadata_path, "text") ELSE files
             /\ writes' = IF metadata_path # None
                          THEN Append(writes, <<idx, metadata_path>>) ELSE writes
             /\ sidecars' = IF metadata_path # None
                            THEN DictPut(sidecars, metadata_path, cur.downloaded_files)
                            ELSE sidecars
             /\ Return(success_result(
                    cur,
                    IF metadata_path # None
                    THEN DictPut(cur.downloaded_files, "metadata", PathName(metadata_path))
                    ELSE cur.downloaded_files))
    /\ UNCHANGED <<model_list, idx, dirs, requests, calls, raised, call_vars>>

(***************************************************************************)
(* model_processor.py: process_multiple_models.                            *)
(***************************************************************************)
\* Lines 132-148: the ids and the original URL of an item; ok is false for
\* an item that is neither a str nor a pair.
item_ids(item) ==
    CASE item.kind = "str" ->
           [ok |-> TRUE, model_id |-> parse_model_url(item.url)[1],
            version_id |-> parse_model_url(item.url)[2], original_url |-> item.url]
      [] item.kind = "tuple" ->
           [ok |-> TRUE, model_id |-> item.model_id, version_id |-> item.version_id,
            original_url |-> None]
      [] OTHER ->
           [ok |-> FALSE, model_id |-> None, version_id |-> None, original_url |-> None]

\* Faulty variant: continue without appending a result.
reject_item_silently(item, error) ==
    /\ pc' = "loop"
    /\ UNCHANGED results

\* results.append({...}); continue  (lines 142-148 and 151-157)
reject_item(item, error) ==
    /\ results' = Append(results, [success |-> FALSE, error |-> error,
                                   item |-> ItemStr(item)])
    /\ pc' = "loop"

\* One iteration of the for loop up to the call of process_model.
NextItem ==
    /\ pc = "loop"
    /\ idx < Len(model_list)
    /\ idx' = idx + 1
    /\ LET item == model_list[idx + 1]
           ids  == item_ids(item)
       IN  IF ~ids.ok
           THEN /\ reject_item(item, "Invalid item format")
                /\ UNCHANGED <<cur, calls>>
           ELSE IF Falsy(ids.model_id)
           THEN /\ reject_item(item, "Could not extract model ID")
                /\ UNCHANGED <<cur, calls>>
           ELSE /\ calls' = Append(calls, <<idx + 1, ids.model_id, ids.version_id>>)
                /\ cur' = [NoCur EXCEPT !.model_id = ids.model_id,
                                        !.version_id = ids.version_id,
                                        !.original_url = ids.original_url]
                /\ pc' = "fetch"
                /\ UNCHANGED results
    /\ UNCHANGED <<model_list, dirs, files, sidecars, requests, writes, stages,
                   raised, call_vars>>

\* return results
ReturnResults ==
    /\ pc = "loop"
    /\ idx = Len(model_list)
    /\ pc' = "returned"
    /\ UNCHANGED <<model_list, idx, results, cur, dirs, files, sidecars, requests,
                   writes, stages, calls, raised, call_vars>>

Next ==
    \/ NextItem
    \/ Fetching
    \/ Classifying
    \/ DownloadingModel
    \/ DownloadingImages
    \/ Documenting
    \/ Persisting
    \/ ReturnResults

Spec == Init /\ [][Next]_vars

(***************************************************************************)
(* The functions of utils.py applied on their own to bounded inputs.       *)
(***************************************************************************)
\* Longest display name given to sanitize_filename.
MaxNameLen == 3

\* Longest display name of the two folder names compared.
MaxFolderNameLen == 2

\* Most fragments a reference string is put together from.
MaxUrlParts == 5

\* The strings made of at most n parts.
RECURSIVE StringsUpTo(_, _)
StringsUpTo(parts, n) ==
    IF n = 0 THEN {""}
    ELSE LET shorter == StringsUpTo(parts, n - 1)
         IN  shorter \cup {s \o p : s \in shorter, p \in parts}

\* A plain character, the space, the underscore a space turns into, two of
\* the illegal characters (one of them whitespace) and a whitespace
\* character that is not illegal.
NameChars == {"a", " ", "_", ":", "\t", "\f"}

Names == StringsUpTo(NameChars, MaxNameLen)

FolderNameChars == {"1", " ", "_", ":"}

\* (display name, model id, version id) triples; the ids are decimal, as
\* parse_model_url and the catalog give them.
FolderTriples ==
    StringsUpTo(FolderNameChars, MaxFolderNameLen) \X {"1", "12"} \X {"2", "12"}

UrlParts == {"https://x/", "models/", "12", "3", "?modelVersionId=", "/slug"}

Urls == StringsUpTo(UrlParts, MaxUrlParts)

UpperChar(c) ==
    IF \E k \in 1..Len(UpperToLower) : UpperToLower[k][2] = c
    THEN UpperToLower[CHOOSE k \in 1..Len(UpperToLower) : UpperToLower[k][2] = c][1]
    ELSE c

RECURSIVE UpperFrom(_, _)
UpperFrom(s, i) ==
    IF i > Len(s) THEN "" ELSE UpperChar(Char(s, i)) \o UpperFrom(s, i + 1)

Upper(s) == UpperFrom(s, 1)

Capitalized(s) == IF s = "" THEN "" ELSE UpperChar(Char(s, 1)) \o Slice(s, 2, Len(s))

Padding == {"", " ", "\t", " \n"}

\* Every key of the alias table in three spellings and with whitespace
\* around it.
DecoratedKeys ==
    UNION {{l \o k \o r, l \o Upper(k) \o r, l \o Capitalized(k) \o r} :
              <<l, r>> \in Padding \X Padding,
              k \in {BASE_MODEL_MAPPINGS[n][1] : n \in 1..Len(BASE_MODEL_MAPPINGS)}}

\* Base-model strings that are no key: empty, blank, missing, null, partial
\* matches in either direction, and strings nothing matches.
OtherBaseModels ==
    {"", " ", "\t \n", "\f", Absent, None, "SDXL 0.9", "Pony XL v6", "xl", "Flux",
     "SD 3", "AuraFlow", "Other", "ODOR", "?"}

VersionInputs == {[baseModel |-> b] : b \in DecoratedKeys \cup OtherBaseModels}

\* Declared model types in the spellings the catalog and callers use, and
\* types the route table does not know.
RouteTypes ==
    {"Checkpoint", "checkpoint", "LORA", "LoRA", "TextualInversion", "Hypernetwork",
     "Controlnet", "Checkpoint Merge", "Poses", "VAE", "Unknown"}

RouteKeys ==
    {BASE_MODEL_MAPPINGS[n][2] : n \in 1..Len(BASE_MODEL_MAPPINGS)}
    \cup {"unknown", "flux", "SDXL 1.0"}

RouteInputs == RouteTypes \X RouteKeys \X {"Foo_Bar_1_9"}

NoBatch == model_list = <<>> /\ pc = "idle" /\ BatchIdle

InitCall(f, inputs) == fn = f /\ arg \in inputs /\ ret = NotCalled /\ NoBatch

\* The exception a call ended with, as its outcome.
Raised(e) == "raise " \o e

CallSanitize ==
    /\ fn = "sanitize_filename" /\ ret = NotCalled
    /\ ret' = sanitize_filename(arg)
    /\ UNCHANGED <<fn, arg, batch_vars>>

SpecSanitize == InitCall("sanitize_filename", Names) /\ [][CallSanitize]_vars

\* The folder names of two (name, model id, version id) triples.
CallFolderName ==
    /\ fn = "folder_name" /\ ret = NotCalled
    /\ ret' = <<folder_name(arg[1][1], arg[1][2], arg[1][3]),
                folder_name(arg[2][1], arg[2][2], arg[2][3])>>
    /\ UNCHANGED <<fn, arg, batch_vars>>

SpecFolder ==
    InitCall("folder_name", FolderTriples \X FolderTriples) /\ [][CallFolderName]_vars

CallParse ==
    /\ fn = "parse_model_url" /\ ret = NotCalled
    /\ ret' = parse_model_url(arg)
    /\ UNCHANGED <<fn, arg, batch_vars>>

SpecParse == InitCall("parse_model_url", Urls) /\ [][CallParse]_vars

CallNormalize ==
    /\ fn = "get_base_model_key" /\ ret = NotCalled
    /\ ret' = IF get_base_model_key_raises(arg) THEN Raised("AttributeError")
              ELSE get_base_model_key(arg)
    /\ UNCHANGED <<fn, arg, batch_vars>>

SpecNormalize == InitCall("get_base_model_key", VersionInputs) /\ [][CallNormalize]_vars

\* determine_target_dir returns the path and leaves the directory on disk.
CallRoute ==
    /\ fn = "determine_target_dir" /\ ret = NotCalled
    /\ ret' = determine_target_dir(arg[1], arg[2], arg[3])
    /\ dirs' = dirs \cup {ret'}
    /\ UNCHANGED <<fn, arg, model_list, idx, results, pc, cur, files, sidecars,
                   requests, writes, stages, calls, raised>>

SpecRoute == InitCall("determine_target_dir", RouteInputs) /\ [][CallRoute]_vars

(***************************************************************************)
(* Properties of the batch loop and of process_model, under Spec.          *)
(***************************************************************************)
\* What the loop reads from each reference.
ReferenceIds == [r \in References |-> item_ids(r)]

\* The references that give no model id.
Unparsable(item) == ~ReferenceIds[item].ok \/ Falsy(ReferenceIds[item].model_id)

CalledFor(i) == \E k \in 1..Len(calls) : calls[k][1] = i

RequestsOf(i) == {k \in 1..Len(requests) : requests[k][1] = i}

WritesOf(i) == {k \in 1..Len(writes) : writes[k][1] = i}

RaisedIn(i) == {k \in 1..Len(raised) : raised[k][1] = i}

StagesOf(i) == {stages[k][2] : k \in {j \in 1..Len(stages) : stages[j][1] = i}}

\* C1: process_multiple_models returns exactly one result per reference, in
\* input order; a reference that gives no model id gets a failure result at
\* its position, with no call of process_model and no network request for
\* it, and the references after it are processed all the same.
C1_OneResultPerReference ==
    /\ Len(results) <= Len(model_list)
    /\ pc = "returned" => Len(results) = Len(model_list)
    /\ \A i \in 1..Len(results) :
         IF Unparsable(model_list[i])
         THEN /\ results[i].success = FALSE
              /\ "item" \in DOMAIN results[i]
              /\ results[i].item = ItemStr(model_list[i])
              /\ ~CalledFor(i)
              /\ RequestsOf(i) = {}
         ELSE /\ CalledFor(i)
              /\ "model_id" \in DOMAIN results[i]
              /\ results[i].model_id = ReferenceIds[model_list[i]].model_id

\* A batch whose first reference is malformed has returned, with a failure
\* for it and a success for the reference after it.
C1_Witness ==
    /\ pc = "returned"
    /\ Len(model_list) = 2
    /\ model_list[1] = UrlItem("not a url")
    /\ results[1].success = FALSE
    /\ results[2].success = TRUE

\* C2: an exception raised inside the processing of one reference becomes a
\* Failed result for that reference, carrying the exception's text; it never
\* leaves the batch loop, and the remaining references are still processed.
C2_ExceptionBecomesFailedResult ==
    /\ pc # "aborted"
    /\ \A k \in 1..Len(raised) :
         /\ raised[k][1] <= Len(results)
         /\ results[raised[k][1]].success = FALSE
         /\ results[raised[k][1]].error = "Unexpected error: " \o raised[k][2]
    /\ pc = "returned" => Len(results) = Len(model_list)

\* The first reference raised while its page was rendered, and the second
\* one was processed to success afterwards.
C2_Witness ==
    /\ pc = "returned"
    /\ Len(results) = 2
    /\ raised # <<>>
    /\ raised[1] = <<1, "'NoneType' object is not iterable">>
    /\ results[2].success = TRUE

\* The catalog client gave no model or no version in run i: one of its two
\* requests failed, or the model request was the only one (no version
\* listed).
ApiRequestsOf(i) == {k \in RequestsOf(i) : requests[k][2] \in {"model", "version"}}

FetchGaveNothing(i) ==
    \/ \E k \in ApiRequestsOf(i) : ~requests[k][4]
    \/ Cardinality(ApiRequestsOf(i)) < 2

PastFetching(i) == CalledFor(i) /\ (i < idx \/ pc # "fetch")

\* C3: when the catalog client returns no model or no version, process_model
\* returns a Failed result with the fetch-failure cause at once, and that run
\* creates no directory, attempts no download and writes no file.
C3_FetchFailureAbortsRun ==
    \A i \in 1..idx :
        (PastFetching(i) /\ FetchGaveNothing(i)) =>
            /\ i <= Len(results)
            /\ results[i].success = FALSE
            /\ results[i].error = FetchFailure
            /\ WritesOf(i) = {}
            /\ RequestsOf(i) = ApiRequestsOf(i)
            /\ StagesOf(i) = {"Fetching"}

\* The version request of the first reference failed; the second reference
\* was then processed and wrote its files.
C3_Witness ==
    /\ pc = "returned"
    /\ Len(results) = 2
    /\ Cardinality(ApiRequestsOf(1)) = 2
    /\ results[1].error = FetchFailure
    /\ WritesOf(2) # {}

ModelFileSaved(i) ==
    \E k \in RequestsOf(i) : requests[k][2] = "model_file" /\ requests[k][4]

\* C4: a run that gets no model file (no qualifying descriptor, or a failed
\* download) still goes through Documenting and Persisting and returns
\* success = true with a manifest without model_file; a process_model result
\* is Failed only for a fetch failure or a raised exception.
C4_MissingModelFileIsNotFatal ==
    \A i \in 1..Len(results) :
        /\ (CalledFor(i) /\ ~FetchGaveNothing(i) /\ RaisedIn(i) = {}) =>
              /\ results[i].success = TRUE
              /\ {"Documenting", "Persisting"} \subseteq StagesOf(i)
              /\ "model_file" \in DOMAIN results[i].downloaded_files <=> ModelFileSaved(i)
        /\ (CalledFor(i) /\ results[i].success = FALSE) =>
              (FetchGaveNothing(i) \/ RaisedIn(i) # {})

\* A run whose version has no "Model" file returned success with an HTML
\* page and a sidecar but no model_file; another whose download failed did
\* the same.
C4_Witness ==
    /\ pc = "returned"
    /\ Len(results) = 2
    /\ results[1].success = TRUE /\ results[2].success = TRUE
    /\ \A k \in RequestsOf(1) : requests[k][2] # "model_file"
    /\ \E k \in RequestsOf(2) : requests[k][2] = "model_file" /\ ~requests[k][4]
    /\ DOMAIN results[1].downloaded_files = {"html_info", "metadata"}
    /\ DOMAIN results[2].downloaded_files = {"html_info", "metadata"}

(***************************************************************************)
(* Properties of the functions of utils.py, each under the specification   *)
(* that applies the function to its bounded inputs.                        *)
(***************************************************************************)
Called == ret # NotCalled

IsString(b) == b # Absent /\ b # None

\* C5: a base-model string that, lower-cased and trimmed, is verbatim a key
\* of the alias table gets exactly that key's value, whatever other entry
\* matches it as a substring and whatever its case and surrounding
\* whitespace.
C5_ExactMatchWins ==
    (Called /\ IsString(arg.baseModel)) =>
        \A n \in 1..Len(BASE_MODEL_MAPPINGS) :
            Strip(Lower(arg.baseModel)) = BASE_MODEL_MAPPINGS[n][1]
                => ret = BASE_MODEL_MAPPINGS[n][2]

\* "sdxl turbo" in capitals between whitespace: the earlier entry "sdxl",
\* mapped to another value, is contained in it.
C5_Witness ==
    /\ Called
    /\ arg.baseModel = " SDXL TURBO\t"
    /\ ret = "sdxl turbo"
    /\ Contains(Strip(Lower(arg.baseModel)), BASE_MODEL_MAPPINGS[8][1])
    /\ BASE_MODEL_MAPPINGS[8][2] # ret

\* C6: determine_target_dir uses the route table's path for (lower-cased
\* type, key) when the table has that pair, else the path of (lower-cased
\* type, "unknown") when the table has that, else "Other/Unknown".
C6_RouteFallback ==
    Called =>
        LET t     == Lower(arg[1])
            exact == {n \in 1..Len(MODEL_TYPE_DIRS) :
                         MODEL_TYPE_DIRS[n][1] = t /\ MODEL_TYPE_DIRS[n][2] = arg[2]}
            fall  == {n \in 1..Len(MODEL_TYPE_DIRS) :
                         MODEL_TYPE_DIRS[n][1] = t /\ MODEL_TYPE_DIRS[n][2] = "unknown"}
            path  == IF exact # {} THEN MODEL_TYPE_DIRS[CHOOSE n \in exact : TRUE][3]
                     ELSE IF fall # {} THEN MODEL_TYPE_DIRS[CHOOSE n \in fall : TRUE][3]
                     ELSE "Other/Unknown"
        IN  /\ ret = BASE_MODEL_DIR \o "/" \o path \o "/" \o arg[3]
            /\ ret \in dirs

\* A hypernetwork for "pony" has no entry of its own and goes to the
\* (hypernetwork, unknown) path.
C6_Witness ==
    /\ Called
    /\ arg = <<"Hypernetwork", "pony", "Foo_Bar_1_9">>
    /\ ret = "N:/Models/Other/Hypernetworks/Foo_Bar_1_9"

AllWhitespace(s) == \A i \in 1..Len(s) : Char(s, i) \in Whitespace

\* No table key equals, contains or is contained in the lower-cased,
\* trimmed string.
Unrecognised(s) ==
    \A n \in 1..Len(BASE_MODEL_MAPPINGS) :
        /\ ~Contains(Strip(Lower(s)), BASE_MODEL_MAPPINGS[n][1])
        /\ ~Contains(BASE_MODEL_MAPPINGS[n][1], Strip(Lower(s)))

\* C7: for an empty, whitespace-only or absent base-model string
\* get_base_model_key returns "unknown" and does not raise; an unrecognised
\* string is no error either and gives "unknown".  (A baseModel that is
\* present with the value null is neither: see get_base_model_key_raises.)
C7_BlankIsUnknown ==
    Called =>
        /\ (arg.baseModel = Absent
              \/ (IsString(arg.baseModel) /\ AllWhitespace(arg.baseModel)))
               => ret = "unknown"
        /\ (IsString(arg.baseModel) /\ ~AllWhitespace(arg.baseModel)
              /\ Unrecognised(arg.baseModel))
               => ret = "unknown"

C7_Witness ==
    /\ Called
    /\ arg.baseModel = "\t \n"
    /\ ret = "unknown"

\* How many digits s ends with.
TailDigits(s) ==
    Len(s) - SetMax({i \in 0..Len(s) : i = 0 \/ Char(s, i) \notin Digits})

\* "models/" followed by a digit stands at position i of s.
ModelsDigitAt(s, i) ==
    /\ Slice(s, i, i + 6) = "models/"
    /\ i + 7 <= Len(s)
    /\ Char(s, i + 7) \in Digits

HasModelsDigit(s) == \E i \in 1..Len(s) : ModelsDigitAt(s, i)

\* .../models/{id}: the string ends with models/ and digits, the id, and
\* nothing before that looks like a model reference.
IsPlainForm(s) ==
    LET n == TailDigits(s)
    IN  /\ n >= 1
        /\ Len(s) - n >= 7
        /\ Slice(s, Len(s) - n - 6, Len(s) - n) = "models/"
        /\ \A i \in 1..(Len(s) - n - 7) : ~ModelsDigitAt(s, i)

PlainId(s) == Slice(s, Len(s) - TailDigits(s) + 1, Len(s))

\* .../models/{id}?modelVersionId={versionId}
IsVersionForm(s) ==
    LET m == TailDigits(s)
    IN  /\ m >= 1
        /\ Len(s) - m >= 16
        /\ Slice(s, Len(s) - m - 15, Len(s) - m) = "?modelVersionId="
        /\ IsPlainForm(Slice(s, 1, Len(s) - m - 16))

ParsesTheTwoForms ==
    /\ IsPlainForm(arg) => ret = <<PlainId(arg), None>>
    /\ IsVersionForm(arg) =>
          ret = <<PlainId(Slice(arg, 1, Len(arg) - TailDigits(arg) - 16)), PlainId(arg)>>

\* C8 as claimed: (id, None) for .../models/{id}, (id, versionId) for
\* .../models/{id}?modelVersionId={versionId}, and (None, None) for every
\* string that has neither form.
C8_OnlyTheTwoForms ==
    Called =>
        /\ ParsesTheTwoForms
        /\ (~IsPlainForm(arg) /\ ~IsVersionForm(arg)) => ret = <<None, None>>

\* C8, amended: the two forms parse as claimed; (None, None) is returned
\* exactly for the strings without "models/" followed by a digit; every
\* other string is read at its leftmost such place, the version id only
\* when ?modelVersionId= and digits follow the id at once.
C8_LeftmostReference ==
    Called =>
        /\ ParsesTheTwoForms
        /\ ret = <<None, None>> <=> ~HasModelsDigit(arg)
        /\ HasModelsDigit(arg) =>
              LET i    == SetMin({j \in 1..Len(arg) : ModelsDigitAt(arg, j)})
                  id   == ret[1]
                  q    == i + 7 + Len(id)
                  tail == Slice(arg, q, Len(arg))
              IN  /\ id # None /\ id # ""
                  /\ \A k \in 1..Len(id) : Char(id, k) \in Digits
                  /\ Slice(arg, i + 7, q - 1) = id
                  /\ q <= Len(arg) => Char(arg, q) \notin Digits
                  /\ IF Slice(tail, 1, 16) = "?modelVersionId="
                        /\ Len(tail) >= 17 /\ Char(tail, 17) \in Digits
                     THEN /\ ret[2] # None
                          /\ \A k \in 1..Len(ret[2]) : Char(ret[2], k) \in Digits
                          /\ Slice(tail, 17, 16 + Len(ret[2])) = ret[2]
                          /\ Len(tail) > 16 + Len(ret[2])
                                => Char(tail, 17 + Len(ret[2])) \notin Digits
                     ELSE ret[2] = None

\* A catalog URL with a name slug after the id: neither form, and parsed.
C8_Witness ==
    /\ Called
    /\ arg = "https://x/models/12/slug"
    /\ ret = <<"12", None>>
    /\ ~IsPlainForm(arg) /\ ~IsVersionForm(arg)

\* C9 as claimed: two distinct (name, model id, version id) triples never
\* get the same folder name.
C9_DistinctTriplesDistinctFolders ==
    (Called /\ arg[1] # arg[2]) => ret[1] # ret[2]

\* C9, amended: triples with different model ids or different version ids
\* get different folder names; triples with the same ids get the same folder
\* name exactly when their names are equal after sanitising.
C9_FoldersDistinctByIds ==
    Called =>
        /\ (arg[1][2] # arg[2][2] \/ arg[1][3] # arg[2][3]) => ret[1] # ret[2]
        /\ (arg[1][2] = arg[2][2] /\ arg[1][3] = arg[2][3]) =>
              (ret[1] = ret[2]
                 <=> sanitize_filename(arg[1][1]) = sanitize_filename(arg[2][1]))

\* Model 1 version 12 and model 12 version 2 under names that end in
\* digits: the folder names differ.
C9_Witness ==
    /\ Called
    /\ arg = << <<"1", "1", "12">>, <<"1_", "12", "2">> >>
    /\ ret = <<"1_1_12", "1__12_2">>

\* The characters of s that are neither illegal, nor a space, nor an
\* underscore.
RECURSIVE DropFrom(_, _, _)
DropFrom(s, drop, i) ==
    IF i > Len(s) THEN ""
    ELSE (IF Char(s, i) \in drop THEN "" ELSE Char(s, i)) \o DropFrom(s, drop, i + 1)

OtherChars(s) == DropFrom(s, IllegalChars \cup {" ", "_"}, 1)

NoForbiddenChar(s) == \A i \in 1..Len(s) : Char(s, i) \notin IllegalChars \cup {" "}

\* C10 as claimed: the output holds no illegal character and no space, and
\* all other characters of the input are kept in their order.
C10_OtherCharsKept ==
    Called => (NoForbiddenChar(ret) /\ OtherChars(ret) = OtherChars(arg))

RECURSIVE PickChars(_, _, _)
PickChars(s, order, k) ==
    IF k > Len(order) THEN ""
    ELSE (IF Char(s, order[k]) = " " THEN "_" ELSE Char(s, order[k]))
         \o PickChars(s, order, k + 1)

\* C10, amended: the output holds no illegal character and no space; it is
\* the input from its first to its last character that is neither illegal
\* nor whitespace, without the illegal characters and with every space
\* turned into an underscore.  Whitespace outside that span is dropped, also
\* whitespace that is not illegal (a form feed).
C10_SanitizedSpan ==
    Called =>
        LET solid == {i \in 1..Len(arg) : Char(arg, i) \notin IllegalChars \cup Whitespace}
            span  == IF solid = {} THEN {}
                     ELSE {i \in SetMin(solid)..SetMax(solid) :
                              Char(arg, i) \notin IllegalChars}
        IN  /\ NoForbiddenChar(ret)
            /\ ret = PickChars(arg, Ascending(span), 1)

\* A name with a form feed in front.
C10_Witness ==
    /\ Called
    /\ arg = "\fa_"
    /\ ret = "a_"

(***************************************************************************)
(* determine_target_dir called again with the same arguments.              *)
(***************************************************************************)
MaxRouteCalls == 2

\* Faulty variant: mkdir(parents=True), exist_ok left at its default False.
mkdir_exist_ok_default == FALSE

\* target_dir.mkdir(parents=True, exist_ok=True)
mkdir_exist_ok == TRUE

\* Path.mkdir raises FileExistsError for an existing directory unless
\* exist_ok is set.
mkdir_raises(path, existing) == path \in existing /\ ~mkdir_exist_ok

\* A model's type and classification key with its (name, model id, version
\* id): what one run of process_model routes by.
RerouteInputs ==
    {"LoRA", "Poses", "Unknown"} \X {"sdxl 1.0", "unknown", "flux"} \X FolderTriples

\* One more run for the same model: the folder name is built and
\* determine_target_dir resolves and creates the directory.  calls keeps what
\* each call returned or raised.
CallRouteAgain ==
    /\ fn = "determine_target_dir again" /\ Len(calls) < MaxRouteCalls
    /\ LET base_name  == folder_name(arg[3][1], arg[3][2], arg[3][3])
           target_dir == determine_target_dir(arg[1], arg[2], base_name)
       IN  IF mkdir_raises(target_dir, dirs)
           THEN /\ ret' = Raised("FileExistsError")
                /\ dirs' = dirs
           ELSE /\ ret' = target_dir
                /\ dirs' = dirs \cup {target_dir}
    /\ calls' = Append(calls, ret')
    /\ UNCHANGED <<fn, arg, model_list, idx, results, pc, cur, files, sidecars,
                   requests, writes, stages, raised>>

SpecReroute ==
    InitCall("determine_target_dir again", RerouteInputs) /\ [][CallRouteAgain]_vars

\* C11: every call of determine_target_dir with the same type, key and
\* (name, model id, version id) returns the same path, the path of the first
\* call; no call fails because the directory is already there, and the
\* directory exists afterwards.
C11_RoutingIdempotent ==
    \A i \in 1..Len(calls) :
        /\ calls[i] # Raised("FileExistsError")
        /\ calls[i] = calls[1]
        /\ calls[i] \in dirs
        /\ calls[i] = BASE_MODEL_DIR \o "/" \o target_subdir(arg[1], arg[2]) \o "/"
                         \o sanitize_filename(arg[3][1]) \o "_" \o arg[3][2]
                         \o "_" \o arg[3][3]

\* The second call for a LoRA found its directory in place.
C11_Witness ==
    /\ Len(calls) >= 2
    /\ arg = <<"LoRA", "sdxl 1.0", <<"1 ", "12", "2">> >>
    /\ calls[1] = "N:/Models/SDXL/Base/Lora/1_12_2"
    /\ calls[2] = calls[1]
    /\ dirs = {calls[1]}

(***************************************************************************)
(* More properties of process_model, under Spec.                           *)
(***************************************************************************)
Requested(i, kind, url, ok) ==
    \E k \in 1..Len(requests) : requests[k] = <<i, kind, url, ok>>

Wrote(i, path) == \E k \in 1..Len(writes) : writes[k] = <<i, path>>

\* Run i fetched the model record "Foo Bar" (LoRA) and its version 9.
FooBarRun(i) ==
    /\ \E k \in 1..Len(calls) : calls[k][1] = i /\ calls[k][2] = "1"
    /\ Requested(i, "model", BASE_URL \o "/models/1", TRUE)
    /\ Requested(i, "version", BASE_URL \o "/model-versions/9", TRUE)

FooBarDir == "N:/Models/SDXL/Base/Lora/Foo_Bar_1_9"

\* In run i the model file came down and both documents were written.
FooBarAllSaved(i) ==
    /\ Requested(i, "model_file", "https://d/9", TRUE)
    /\ Wrote(i, FooBarDir \o "/Foo_Bar_1_9_info.html")
    /\ Wrote(i, FooBarDir \o "/Foo_Bar_1_9_metadata.json")

\* C12: the run for model {name "Foo Bar", type "LoRA"} and version {id 9,
\* baseModel "SDXL 1.0", one Model file foo.safetensors, no images} whose
\* download and two writes succeed returns a success result with a target
\* directory ending in SDXL/Base/Lora/Foo_Bar_{model_id}_9 and a manifest
\* of exactly model_file = "foo.safetensors", html_info and metadata, and
\* no images key.
C12_FooBarExample ==
    \A i \in 1..Len(results) :
        (FooBarRun(i) /\ FooBarAllSaved(i)) =>
            /\ results[i].success = TRUE
            /\ EndsWith(results[i].target_directory, "SDXL/Base/Lora/Foo_Bar_1_9")
            /\ results[i].target_directory \in dirs
            /\ DOMAIN results[i].downloaded_files = {"model_file", "html_info", "metadata"}
            /\ results[i].downloaded_files["model_file"] = "foo.safetensors"
            /\ results[i].downloaded_files["html_info"] = "Foo_Bar_1_9_info.html"
            /\ results[i].downloaded_files["metadata"] = "Foo_Bar_1_9_metadata.json"

C12_Witness ==
    /\ pc = "returned"
    /\ model_list = <<UrlItem("https://civitai.com/models/1")>>
    /\ FooBarRun(1) /\ FooBarAllSaved(1)
    /\ Len(results) = 1 /\ results[1].success = TRUE
    /\ "images" \notin DOMAIN results[1].downloaded_files

(***************************************************************************)
(* api_client.py: fetch_model_info called on its own, with its try block   *)
(* and its except clauses.                                                 *)
(***************************************************************************)
\* A 2xx response whose body is not JSON: response.json() raises.
NotJson == Some([not_json |-> TRUE])

FetchModelIds == {"1", "2", "3", "4"}

FetchVersionIds == {None, "", "7", "9"}

\* The version request, when fetch_model_info gets as far as making it.
version_requested(model_resp, version_id) ==
    /\ model_resp # HTTPError
    /\ model_resp # NotJson
    /\ fetch_version_id(model_resp[1], version_id) # None

\* The arguments of a call and the answers the two requests get.
FetchInputs ==
    UNION {
      UNION {
        UNION {
          {[model_id |-> m, version_id |-> v, model_resp |-> mr, version_resp |-> vr] :
             vr \in IF version_requested(mr, v)
                    THEN VersionResponses(fetch_version_id(mr[1], v)) \cup {NotJson}
                    ELSE {HTTPError}} :
          mr \in ModelResponses(m) \cup {NotJson}} :
        v \in FetchVersionIds} :
      m \in FetchModelIds}

\* The exception the try block of fetch_model_info raises, None without one:
\* session.get and raise_for_status raise a RequestException, json() a
\* JSONDecodeError.
fetch_try_raises(model_resp, version_id, version_resp) ==
    IF model_resp = HTTPError THEN "RequestException"
    ELSE IF model_resp = NotJson THEN "JSONDecodeError"
    ELSE IF ~version_requested(model_resp, version_id) THEN None
    ELSE IF version_resp = HTTPError THEN "RequestException"
    ELSE IF version_resp = NotJson THEN "JSONDecodeError"
    ELSE None

\* Faulty variant: only  except requests.exceptions.RequestException.
fetch_catches_request_errors_only(e) == e = "RequestException"

\* except requests.exceptions.RequestException / except Exception: every
\* exception of the try block is caught.
fetch_catches(e) == TRUE

\* One call: ret.raised is the exception that leaves fetch_model_info (None
\* for a normal return), ret.value the pair returned; requests gets the GETs.
CallFetch ==
    /\ fn = "fetch_model_info" /\ requests = <<>>
    /\ LET e == fetch_try_raises(arg.model_resp, arg.version_id, arg.version_resp)
       IN  /\ ret' =
                IF e = None
                THEN [raised |-> None,
                      value  |-> fetch_model_info(arg.model_id, arg.version_id,
                                                  arg.model_resp, arg.version_resp)]
                ELSE [raised |-> IF fetch_catches(e) THEN None ELSE e,
                      value  |-> <<NoneRec, NoneRec>>]
           /\ requests' =
                IF arg.model_resp = NotJson
                THEN <<<<"model", BASE_URL \o "/models/" \o arg.model_id, TRUE>>>>
                ELSE fetch_requests(arg.model_id, arg.version_id,
                                    arg.model_resp, arg.version_resp)
    /\ UNCHANGED <<fn, arg, model_list, idx, results, pc, cur, dirs, files, sidecars,
                   writes, stages, calls, raised>>

SpecFetch == InitCall("fetch_model_info", FetchInputs) /\ [][CallFetch]_vars

\* C13: fetch_model_info never raises.  A failed or unreadable answer to the
\* model request or to the version request gives (None, None).  The first
\* request is the model's; a version request follows only a successful model
\* request and asks for the given version id or, without one, for the first
\* version the model lists; a model that lists none gives (None, None)
\* after the one request.  Two good answers are returned as they are.
C13_FetchNeverRaises ==
    requests # <<>> =>
        LET good_model == arg.model_resp # HTTPError /\ arg.model_resp # NotJson
            good_version == arg.version_resp # HTTPError /\ arg.version_resp # NotJson
        IN  /\ ret.raised = None
            /\ Len(requests) \in {1, 2}
            /\ requests[1][1] = "model"
            /\ requests[1][2] = BASE_URL \o "/models/" \o arg.model_id
            /\ requests[1][3] = (arg.model_resp # HTTPError)
            /\ ~good_model => (ret.value = <<NoneRec, NoneRec>> /\ Len(requests) = 1)
            /\ Len(requests) = 2 =>
                  /\ requests[1][3] = TRUE
                  /\ requests[2][1] = "version"
                  /\ requests[2][2] =
                        BASE_URL \o "/model-versions/"
                           \o (IF arg.version_id \notin {None, ""} THEN arg.version_id
                               ELSE ToString(arg.model_resp[1].modelVersions[1]))
                  /\ requests[2][3] = (arg.version_resp # HTTPError)
                  /\ ~good_version => ret.value = <<NoneRec, NoneRec>>
                  /\ good_version => ret.value = <<arg.model_resp, arg.version_resp>>
            /\ (good_model /\ arg.version_id \in {None, ""}
                  /\ arg.model_resp[1].modelVersions = <<>>)
                  => (ret.value = <<NoneRec, NoneRec>> /\ Len(requests) = 1)
            /\ (good_model /\ (arg.version_id \notin {None, ""}
                                 \/ arg.model_resp[1].modelVersions # <<>>))
                  => Len(requests) = 2

\* The model request was answered, the request for its first version failed.
C13_Witness ==
    /\ fn = "fetch_model_info"
    /\ arg.model_id = "2" /\ arg.version_id = None
    /\ arg.version_resp = HTTPError
    /\ requests = << <<"model", "https://civitai.com/api/v1/models/2", TRUE>>,
                     <<"version", "https://civitai.com/api/v1/model-versions/8", FALSE>> >>
    /\ ret = [raised |-> None, value |-> <<NoneRec, NoneRec>>]

(***************************************************************************)
(* main.py: the command line run.  fn is "main", arg the URL arguments and *)
(* ret what main has done so far; the batch runs in between through the    *)
(* actions of process_multiple_models.                                     *)
(***************************************************************************)
CliUrls ==
    {"https://civitai.com/models/1",
     "https://civitai.com/models/2?modelVersionId=7",
     "not a url"}

CliArguments == SeqsUpTo(CliUrls, MaxBatch)

\* Lines 42-49: the URLs parse_model_url finds a model id in.
valid_items(urls) == SelectSeq(urls, LAMBDA u : ~Falsy(parse_model_url(u)[1]))

\* Lines 48-49: one warning in the log for each of the others.
invalid_url_warnings(urls) ==
    LET bad == SelectSeq(urls, LAMBDA u : Falsy(parse_model_url(u)[1]))
    IN  [k \in 1..Len(bad) |-> "Invalid URL format: " \o bad[k]]

\* r.get(key, default)
DictGet(r, key, default) == IF key \in DOMAIN r THEN r[key] ELSE default

\* get_processing_summary; success_rate is kept as the fraction
\* <<100 * successful, total>>, <<0, 1>> for no results.
get_processing_summary(rs) ==
    LET successful == SelectSeq(rs, LAMBDA r : DictGet(r, "success", FALSE))
        failed     == SelectSeq(rs, LAMBDA r : ~DictGet(r, "success", FALSE))
    IN  [total_processed   |-> Len(rs),
         successful        |-> Len(successful),
         failed            |-> Len(failed),
         success_rate      |-> IF rs # <<>> THEN <<100 * Len(successful), Len(rs)>>
                               ELSE <<0, 1>>,
         successful_models |-> [k \in 1..Len(successful) |->
                                   DictGet(successful[k], "model_name", "Unknown")],
         failed_items      |-> [k \in 1..Len(failed) |->
                                   [item  |-> DictGet(failed[k], "model_id", "Unknown"),
                                    error |-> DictGet(failed[k], "error", "Unknown")]]]

\* main before its first line: nothing logged, nothing printed.
MainStart ==
    [at |-> "validate", log |-> <<>>, summary |-> NoneRec, detailed |-> FALSE,
     interrupted |-> FALSE, cleaned_up |-> FALSE]

InitMain ==
    /\ fn = "main"
    /\ arg \in CliArguments
    /\ ret = MainStart
    /\ NoBatch

\* Lines 34-56: no arguments, usage and return; invalid URLs are logged and
\* left out; with no valid URL main returns; else the batch starts.
MainValidate ==
    /\ fn = "main" /\ ret.at = "validate"
    /\ IF arg = <<>>
       THEN /\ ret' = [ret EXCEPT !.at = "exited", !.log = <<"No URLs provided">>]
            /\ UNCHANGED <<model_list, pc>>
       ELSE IF valid_items(arg) = <<>>
       THEN /\ ret' = [ret EXCEPT !.at = "exited",
                                  !.log = Append(invalid_url_warnings(arg),
                                                 "No valid URLs found. Exiting.")]
            /\ UNCHANGED <<model_list, pc>>
       ELSE /\ ret' = [ret EXCEPT !.at = "processing", !.log = invalid_url_warnings(arg)]
            /\ model_list' = [k \in 1..Len(valid_items(arg)) |-> UrlItem(valid_items(arg)[k])]
            /\ pc' = "loop"
    /\ UNCHANGED <<fn, arg, idx, results, cur, dirs, files, sidecars, requests,
                   writes, stages, calls, raised>>

\* Lines 63-67 and 73-75: the summary and the detailed results are printed,
\* then cleanup.
MainSummary ==
    /\ fn = "main" /\ ret.at = "processing" /\ pc = "returned"
    /\ ret' = [ret EXCEPT !.at = "exited",
                          !.summary = Some(get_processing_summary(results)),
                          !.detailed = TRUE,
                          !.cleaned_up = TRUE]
    /\ UNCHANGED <<fn, arg, batch_vars>>

\* What the handler of KeyboardInterrupt prints of the batch so far: nothing
\* (line 70 only logs).
summary_on_interrupt(rs) == NoneRec

\* Lines 69-70 and 73-75: Ctrl-C while process_multiple_models runs.  No
\* except Exception clause stops a KeyboardInterrupt; main catches it, logs,
\* and cleans up.
MainInterrupt ==
    /\ fn = "main" /\ ret.at = "processing"
    /\ pc \in {"loop", "fetch", "classify", "model_file", "images", "html", "metadata"}
    /\ pc' = "interrupted"
    /\ ret' = [ret EXCEPT !.at = "exited",
                          !.log = Append(@, "Download interrupted by user"),
                          !.summary = summary_on_interrupt(results),
                          !.interrupted = TRUE,
                          !.cleaned_up = TRUE]
    /\ UNCHANGED <<fn, arg, model_list, idx, results, cur, dirs, files, sidecars,
                   requests, writes, stages, calls, raised>>

NextMain ==
    \/ MainValidate
    \/ NextItem
    \/ Fetching
    \/ Classifying
    \/ DownloadingModel
    \/ DownloadingImages
    \/ Documenting
    \/ Persisting
    \/ ReturnResults
    \/ MainSummary
    \/ MainInterrupt

SpecMain == InitMain /\ [][NextMain]_vars

MainExited == fn = "main" /\ ret.at = "exited"

\* C14 as claimed: when a command line run with URL arguments ends without
\* an interrupt, a summary has been printed that accounts for every URL
\* argument, the failed ones each with an entry in failed_items.
C14_EveryFailedUrlInSummary ==
    (MainExited /\ ~ret.interrupted /\ arg # <<>>) =>
        /\ ret.summary # NoneRec
        /\ ret.summary[1].total_processed = Len(arg)
        /\ ret.summary[1].successful + ret.summary[1].failed = Len(arg)
        /\ Len(ret.summary[1].failed_items) = Len(arg) - ret.summary[1].successful

\* C15 as claimed: when a keyboard interrupt ended the batch, main has
\* printed a summary of the batch and cleaned up by the time it exits.
C15_SummaryAfterInterrupt ==
    (MainExited /\ ret.interrupted) =>
        (ret.summary # NoneRec /\ ret.cleaned_up)

\* One URL was downloaded, the other was left out at validation: the summary
\* printed at the end counts one reference and no failure.
C14_Witness ==
    /\ MainExited /\ ~ret.interrupted
    /\ arg = <<"https://civitai.com/models/1", "not a url">>
    /\ ret.log = <<"Invalid URL format: not a url">>
    /\ ret.summary # NoneRec
    /\ ret.summary[1].total_processed = 1
    /\ ret.summary[1].failed = 0
    /\ ret.summary[1].failed_items = <<>>

\* The interrupt came while the second model was being processed: the first
\* result is in the list, main has exited, and nothing was printed.
C15_Witness ==
    /\ MainExited /\ ret.interrupted /\ ret.cleaned_up
    /\ Len(arg) = 2 /\ Len(results) = 1 /\ idx = 2
    /\ ret.summary = NoneRec /\ ~ret.detailed

(***************************************************************************)
(* download_manager_gui.py: _process_model_with_feedback, the phases of    *)
(* one model on the worker thread, called on a manager whose processor     *)
(* exists, while the interactive thread may call stop_download.  ret is    *)
(* the manager and the call; cur holds the locals, the disk and the        *)
(* request log are those of the batch.                                     *)
(***************************************************************************)
FeedbackInputs ==
    {[model_id |-> "1", version_id |-> None, original_url |-> "https://civitai.com/models/1"],
     [model_id |-> "2", version_id |-> "7",
      original_url |-> "https://civitai.com/models/2?modelVersionId=7"],
     [model_id |-> "2", version_id |-> None, original_url |-> "https://civitai.com/models/2"],
     [model_id |-> "3", version_id |-> None, original_url |-> "https://civitai.com/models/3"]}

\* at: the phase about to start; phases: the phases started so far, each with
\* the value should_stop had at that moment; result: what the call returned.
FeedbackStart ==
    [at |-> "fetch", should_stop |-> FALSE, current_model |-> "",
     progress |-> 0, phases |-> <<>>, result |-> NoneRec]

InitFeedback ==
    /\ fn = "_process_model_with_feedback"
    /\ arg \in FeedbackInputs
    /\ ret = FeedbackStart
    /\ NoBatch

InFeedback(phase) == fn = "_process_model_with_feedback" /\ ret.at = phase

\* Whether a phase that is about to start goes ahead: the function never
\* looks at should_stop.
phase_starts(should_stop) == TRUE

\* The phase starts (its status and progress go to the callbacks) and the
\* call moves on to the next one.
FeedbackNext(phase, percentage, next) ==
    [ret EXCEPT !.at = next, !.progress = percentage,
                !.phases = Append(@, <<phase, ret.should_stop>>)]

\* The phase starts and the call returns result.
FeedbackReturn(phase, percentage, result) ==
    [ret EXCEPT !.at = "done", !.progress = percentage,
                !.phases = Append(@, <<phase, ret.should_stop>>),
                !.result = Some(result)]

\* except Exception as e: return {"success": False, "error": str(e)}
FeedbackRaise(phase, percentage, e) ==
    FeedbackReturn(phase, percentage, [success |-> FALSE, error |-> e])

\* Lines 155-161.
FeedbackFetch ==
    /\ InFeedback("fetch") /\ phase_starts(ret.should_stop)
    /\ \E model_resp \in ModelResponses(arg.model_id) :
         \E version_resp \in
               (IF model_resp = HTTPError
                   \/ fetch_version_id(model_resp[1], arg.version_id) = None
                THEN {HTTPError}
                ELSE VersionResponses(fetch_version_id(model_resp[1], arg.version_id))) :
           LET got  == fetch_model_info(arg.model_id, arg.version_id,
                                        model_resp, version_resp)
               reqs == fetch_requests(arg.model_id, arg.version_id,
                                      model_resp, version_resp)
           IN  /\ requests' = requests \o [k \in 1..Len(reqs) |-> <<0>> \o reqs[k]]
               /\ IF got[1] = NoneRec \/ got[2] = NoneRec
                  THEN /\ ret' = FeedbackReturn("fetch", 5,
                                    [success |-> FALSE,
                                     error |-> "Failed to fetch model information"])
                       /\ UNCHANGED cur
                  ELSE /\ ret' = FeedbackNext("fetch", 5, "directories")
                       /\ cur' = [cur EXCEPT !.model_id = arg.model_id,
                                             !.version_id = arg.version_id,
                                             !.original_url = arg.original_url,
                                             !.model = got[1], !.version = got[2]]
    /\ UNCHANGED <<fn, arg, model_list, idx, results, pc, dirs, files, sidecars,
                   writes, stages, calls, raised>>

\* Lines 163-178.
FeedbackDirectories ==
    /\ InFeedback("directories") /\ phase_starts(ret.should_stop)
    /\ LET model      == cur.model[1]
           version    == cur.version[1]
           model_name == IF model.name = Absent THEN "Model_" \o cur.model_id
                         ELSE model.name
           base_name  == folder_name(model_name, cur.model_id, ToString(version.id))
       IN  IF get_base_model_key_raises(version)
           THEN /\ ret' = [FeedbackRaise("directories", 10,
                                         "'NoneType' object has no attribute 'lower'")
                             EXCEPT !.current_model = model_name]
                /\ UNCHANGED <<cur, dirs, writes>>
           ELSE LET target_dir ==
                      determine_target_dir(model.type, get_base_model_key(version),
                                           base_name)
                IN  \/ /\ ret' = [FeedbackRaise("directories", 10,
                                                "[Errno 13] Permission denied")
                                    EXCEPT !.current_model = model_name]
                       /\ UNCHANGED <<cur, dirs, writes>>
                    \/ /\ ret' = [FeedbackNext("directories", 10, "model_file")
                                    EXCEPT !.current_model = model_name]
                       /\ dirs' = dirs \cup {target_dir}
                       /\ writes' = Append(writes, <<0, target_dir>>)
                       /\ cur' = [cur EXCEPT !.raw_name = model_name,
                                             !.base_name = base_name,
                                             !.target_dir = target_dir]
    /\ UNCHANGED <<fn, arg, model_list, idx, results, pc, files, sidecars, requests,
                   stages, calls, raised>>

\* Lines 181-195.
FeedbackModelFile ==
    /\ InFeedback("model_file") /\ phase_starts(ret.should_stop)
    /\ LET version == cur.version[1]
           n       == select_model_file(version.files)
           put(name) == [cur EXCEPT !.downloaded_files =
                            IF name # None THEN DictPut(@, "model_file", name) ELSE @]
       IN  IF download_model_file_raises(version)
           THEN /\ ret' = FeedbackRaise("model_file", 15, "'name'")
                /\ UNCHANGED <<cur, files, requests, writes>>
           ELSE IF n = 0
           THEN /\ ret' = FeedbackNext("model_file", 15, "images")
                /\ UNCHANGED <<cur, files, requests, writes>>
           ELSE \E outcome \in DownloadOutcomes :
                  LET path == cur.target_dir \o "/" \o version.files[n].name
                  IN  /\ requests' = Append(requests,
                                            <<0, "model_file", version.files[n].downloadUrl,
                                              download_file(outcome)>>)
                      /\ files' = file_after_download(files, path, outcome)
                      /\ writes' = writes
                            \o [k \in 1..Len(written_paths(<<path>>, <<outcome>>)) |->
                                   <<0, path>>]
                      /\ cur' = put(download_model_file(version, outcome))
                      /\ ret' = FeedbackNext("model_file", 15, "images")
    /\ UNCHANGED <<fn, arg, model_list, idx, results, pc, dirs, sidecars, stages,
                   calls, raised>>

\* Lines 198-211.
FeedbackImages ==
    /\ InFeedback("images") /\ phase_starts(ret.should_stop)
    /\ LET images == cur.version[1].images
           att    == attempted_images(images, MAX_PREVIEW_IMAGES)
           order  == Ascending(att)
           paths  == [k \in 1..Len(order) |->
                        cur.target_dir \o "/"
                           \o image_filename(order[k], images[order[k]].url)]
       IN  \E outs \in [att -> DownloadOutcomes] :
             /\ requests' = requests
                   \o [k \in 1..Len(order) |->
                          <<0, "image", images[order[k]].url, download_file(outs[order[k]])>>]
             /\ files' = files_after_images(files, images, cur.target_dir,
                                            MAX_PREVIEW_IMAGES, outs)
             /\ LET w == written_paths(paths, [k \in 1..Len(order) |-> outs[order[k]]])
                IN  writes' = writes \o [k \in 1..Len(w) |-> <<0, w[k]>>]
             /\ record_images(download_images(images, cur.target_dir,
                                              MAX_PREVIEW_IMAGES, outs))
             /\ ret' = FeedbackNext("images", 75, "html")
    /\ UNCHANGED <<fn, arg, model_list, idx, results, pc, dirs, sidecars, stages,
                   calls, raised>>

\* Lines 214-222.
FeedbackHtml ==
    /\ InFeedback("html") /\ phase_starts(ret.should_stop)
    /\ IF generate_model_html_raises(cur.model[1])
       THEN /\ ret' = FeedbackRaise("html", 85, "'NoneType' object is not iterable")
            /\ UNCHANGED <<cur, files, writes>>
       ELSE \E outcome \in WriteOutcomes :
              LET html_path == save_html_info(cur.target_dir, cur.base_name, outcome)
              IN  /\ files' = IF html_path # None THEN DictPut(files, html_path, "text")
                              ELSE files
                  /\ writes' = IF html_path # None
                               THEN Append(writes, <<0, html_path>>) ELSE writes
                  /\ cur' = [cur EXCEPT !.downloaded_files =
                                IF html_path # None
                                THEN DictPut(@, "html_info", PathName(html_path))
                                ELSE @]
                  /\ ret' = FeedbackNext("html", 85, "metadata")
    /\ UNCHANGED <<fn, arg, model_list, idx, results, pc, dirs, sidecars, requests,
                   stages, calls, raised>>

\* Lines 225-248.
FeedbackMetadata ==
    /\ InFeedback("metadata") /\ phase_starts(ret.should_stop)
    /\ \E outcome \in WriteOutcomes :
         LET metadata_path == save_metadata(cur.target_dir, cur.base_name, outcome)
             manifest == IF metadata_path # None
                         THEN DictPut(cur.downloaded_files, "metadata",
                                      PathName(metadata_path))
                         ELSE cur.downloaded_files
         IN  /\ files' = IF metadata_path # None
                         THEN DictPut(files, metadata_path, "text") ELSE files
             /\ writes' = IF metadata_path # None
                          THEN Append(writes, <<0, metadata_path>>) ELSE writes
             /\ sidecars' = IF metadata_path # None
                            THEN DictPut(sidecars, metadata_path, cur.downloaded_files)
                            ELSE sidecars
             /\ cur' = [cur EXCEPT !.downloaded_files = manifest]
             /\ ret' = FeedbackReturn("metadata", 100,
                          [success |-> TRUE, model_name |-> cur.raw_name,
                           model_id |-> cur.model_id, version_id |-> cur.version[1].id,
                           target_directory |-> cur.target_dir,
                           downloaded_files |-> manifest])
    /\ UNCHANGED <<fn, arg, model_list, idx, results, pc, dirs, requests, stages,
                   calls, raised>>

\* stop_download, line 77, on the interactive thread.
FeedbackStop ==
    /\ fn = "_process_model_with_feedback"
    /\ ret.at # "done" /\ ~ret.should_stop
    /\ ret' = [ret EXCEPT !.should_stop = TRUE]
    /\ UNCHANGED <<fn, arg, batch_vars>>

NextFeedback ==
    \/ FeedbackFetch
    \/ FeedbackDirectories
    \/ FeedbackModelFile
    \/ FeedbackImages
    \/ FeedbackHtml
    \/ FeedbackMetadata
    \/ FeedbackStop

SpecFeedback == InitFeedback /\ [][NextFeedback]_vars

MaxStarts == 2

\* __init__, lines 18-33.  workers: where each thread started so far is;
\* stats_writers and stats_readers: the threads that have assigned to, or
\* read, self.stats or one of its entries; stop_requested: the workers that
\* were alive when stop_download set the flag.
ManagerInit ==
    [is_downloading |-> FALSE, should_stop |-> FALSE,
     stats |-> [total |-> 0, completed |-> 0, failed |-> 0, current_model |-> ""],
     processor |-> None, workers |-> <<>>, ui |-> "idle", last_log |-> "",
     status |-> "", seen_stats |-> NoneRec,
     stats_writers |-> {}, stats_readers |-> {}, stop_requested |-> {}]

InitGui ==
    /\ fn = "GUIDownloadManager"
    /\ arg \in CliArguments
    /\ ret = ManagerInit
    /\ NoBatch

InGui == fn = "GUIDownloadManager"

\* The worker threads that have not ended.
AliveWorkers(m) == {w \in 1..Len(m.workers) : m.workers[w] # "done"}

\* is_busy, line 304.
is_busy(m) == m.is_downloading

\* start_download, lines 42-70, one call on the interactive thread.
StartDownload ==
    /\ InGui /\ ret.ui = "idle"
    /\ Len(ret.workers) < MaxStarts
    /\ ret' =
         IF ret.is_downloading
         THEN [ret EXCEPT !.last_log = "Download already in progress"]
         ELSE IF arg = <<>>
         THEN [ret EXCEPT !.last_log = "No URLs provided for download"]
         ELSE [ret EXCEPT
                 !.is_downloading = TRUE,
                 !.should_stop = FALSE,
                 !.stats = [total |-> Len(arg), completed |-> 0, failed |-> 0,
                            current_model |-> ""],
                 !.stats_writers = @ \cup {"interactive"},
                 !.workers = Append(@, "construct"),
                 !.last_log = "Started downloading models"]
    /\ UNCHANGED <<fn, arg, batch_vars>>

\* stop_download, lines 74-78: the flag is set and the thread goes on to
\* join the worker.
StopRequest ==
    /\ InGui /\ ret.ui = "idle"
    /\ ret.is_downloading
    /\ ret' = [ret EXCEPT !.should_stop = TRUE, !.ui = "joining",
                          !.stop_requested = @ \cup AliveWorkers(ret),
                          !.last_log = "Stopping download..."]
    /\ UNCHANGED <<fn, arg, batch_vars>>

\* stop_download, lines 81-86: join(timeout=5.0) returns, because the worker
\* is done or because the time is up, and is_downloading is cleared.
StopReturn ==
    /\ InGui /\ ret.ui = "joining"
    /\ ret' = [ret EXCEPT !.is_downloading = FALSE, !.ui = "idle",
                          !.status = "Download stopped",
                          !.last_log = "Download stopped by user"]
    /\ UNCHANGED <<fn, arg, batch_vars>>

\* get_stats, line 300.
GetStats ==
    /\ InGui /\ ret.ui = "idle"
    /\ ret' = [ret EXCEPT !.seen_stats = Some(ret.stats),
                          !.stats_readers = @ \cup {"interactive"}]
    /\ UNCHANGED <<fn, arg, batch_vars>>

\* ModelProcessor.__init__(self) takes no argument besides self.
ModelProcessorInitParams == {}

\* Line 93 calls ModelProcessor(progress_callback=..., status_callback=...).
processor_init_raises == ~({"progress_callback", "status_callback"} \subseteq ModelProcessorInitParams)

\* _download_worker, lines 92-96 and 142-143: the constructor call raises
\* TypeError, so the loop of lines 98-140 is not entered; the handler logs.
WorkerConstruct ==
    /\ InGui
    /\ \E w \in 1..Len(ret.workers) :
         /\ ret.workers[w] = "construct"
         /\ processor_init_raises
         /\ ret' = [ret EXCEPT !.workers[w] = "finally",
                               !.last_log = "Unexpected error in download worker"]
    /\ UNCHANGED <<fn, arg, batch_vars>>

\* _download_worker, lines 144-147: processor is still None, so no cleanup;
\* is_downloading is cleared.
WorkerFinally ==
    /\ InGui
    /\ \E w \in 1..Len(ret.workers) :
         /\ ret.workers[w] = "finally"
         /\ ret' = [ret EXCEPT !.workers[w] = "done", !.is_downloading = FALSE]
    /\ UNCHANGED <<fn, arg, batch_vars>>

NextGui ==
    \/ StartDownload
    \/ StopRequest
    \/ StopReturn
    \/ GetStats
    \/ WorkerConstruct
    \/ WorkerFinally

SpecGui == InitGui /\ [][NextGui]_vars

\* C17 as claimed: the stats record is written by the worker thread only;
\* the interactive thread only reads it.
C17_OnlyWorkerWritesStats ==
    InGui =>
        /\ ret.stats_writers \subseteq {"worker"}
        /\ ret.stats_readers \subseteq {"interactive"}

\* After a stop whose join timed out, start_download reset the stats on the
\* interactive thread while the worker thread of the first run was alive.
C17_Witness ==
    /\ InGui
    /\ Len(ret.workers) = 2
    /\ ret.workers = <<"construct", "construct">>
    /\ ret.stats_writers = {"interactive"}
    /\ ret.stats.total = Len(arg)

(***************************************************************************)
(* gui.py: the library view.  The sidecars under the base directory are    *)
(* written by a batch of process_multiple_models; refresh_library runs at  *)
(* window creation, on the Refresh button and when a download has ended.   *)
(* fn is "library", ret the library state of the window.                   *)
(***************************************************************************)
MaxRefreshes == 2

LibraryBatches ==
    SeqsUpTo({UrlItem("https://civitai.com/models/1"),
              UrlItem("https://civitai.com/models/2?modelVersionId=7")}, MaxBatch)

\* A model downloaded by an earlier session.
OldDir == "N:/Models/Other/Lora/Old_4_4"

OldSidecar == OldDir \o "/Old_4_4_metadata.json"

\* str(metadata_path.parent)
ParentDir(p) ==
    LET slashes == {i \in 1..Len(p) : Char(p, i) = "/"}
    IN  IF slashes = {} THEN "." ELSE Slice(p, 1, SetMax(slashes) - 1)

\* find_existing_downloads: the *_metadata.json files under the base
\* directory.
find_existing_downloads(on_disk) ==
    {p \in DOMAIN on_disk : EndsWith(p, "_metadata.json")}

\* Lines 266-270: the lists are empty before the first refresh.  all_models
\* holds the location of each loaded summary; after_batch tells whether the
\* latest refresh ran after the batch had returned.
LibraryStart ==
    [all_models |-> {}, found |-> 0, refreshes |-> 0, message |-> "",
     after_batch |-> FALSE]

InitLibrary ==
    /\ fn = "library" /\ arg = None /\ ret = LibraryStart
    /\ model_list \in LibraryBatches
    /\ pc = "loop"
    /\ idx = 0 /\ results = <<>> /\ cur = NoCur
    /\ requests = <<>> /\ writes = <<>> /\ stages = <<>> /\ calls = <<>> /\ raised = <<>>
    /\ \/ dirs = {} /\ files = EmptyDict /\ sidecars = EmptyDict
       \/ /\ dirs = {OldDir}
          /\ files = DictPut(EmptyDict, OldSidecar, "text")
          /\ sidecars = DictPut(EmptyDict, OldSidecar, EmptyDict)

\* Line 458: the summaries are read only when none is loaded yet.
reload_needed(all_models) == all_models = {}

\* refresh_library, lines 441-476.  The filters of apply_filters select
\* from all_models, so a model missing there cannot be listed.
RefreshLibrary ==
    /\ fn = "library"
    /\ ret.refreshes < MaxRefreshes
    /\ LET metadata_files == find_existing_downloads(sidecars)
       IN  ret' =
             IF metadata_files = {}
             THEN [ret EXCEPT !.found = 0, !.refreshes = @ + 1,
                              !.message = "No models found",
                              !.after_batch = (pc = "returned")]
             ELSE [ret EXCEPT
                     !.found = Cardinality(metadata_files),
                     !.refreshes = @ + 1,
                     !.message = "",
                     !.after_batch = (pc = "returned"),
                     !.all_models = IF reload_needed(ret.all_models)
                                    THEN {ParentDir(p) : p \in metadata_files}
                                    ELSE @]
    /\ UNCHANGED <<fn, arg, batch_vars>>

NextLibrary ==
    \/ RefreshLibrary
    \/ NextItem
    \/ Fetching
    \/ Classifying
    \/ DownloadingModel
    \/ DownloadingImages
    \/ Documenting
    \/ Persisting
    \/ ReturnResults

SpecLibrary == InitLibrary /\ [][NextLibrary]_vars

\* C18 as claimed: once the library has been refreshed after the batch
\* ended, every model whose sidecar is under the base directory is in the
\* library's list, whether or not the library had been loaded before.
C18_RefreshShowsNewDownloads ==
    (fn = "library" /\ ret.after_batch) =>
        \A p \in find_existing_downloads(sidecars) : ParentDir(p) \in ret.all_models

\* The library was loaded with the old model, the batch then wrote the
\* sidecar of Foo Bar, and the refresh after the batch found two sidecars
\* and still lists the old model only.
C18_Witness ==
    /\ fn = "library" /\ ret.after_batch /\ ret.refreshes = 2
    /\ ret.found = 2
    /\ ret.all_models = {OldDir}
    /\ "N:/Models/SDXL/Base/Lora/Foo_Bar_1_9/Foo_Bar_1_9_metadata.json" \in DOMAIN sidecars

(***************************************************************************)
(* C19: the stages of process_model.                                       *)
(***************************************************************************)
StageOrder ==
    <<"Fetching", "Classifying", "DownloadingModel", "DownloadingImages",
      "Documenting", "Persisting">>

\* The stages item i entered, in the order it entered them.
StageSeq(i) ==
    LET OfItem(s) == s[1] = i
        mine == SelectSeq(stages, OfItem)
    IN  [k \in 1..Len(mine) |-> mine[k][2]]

InProcessModel == pc \in {"fetch", "classify", "model_file", "images", "html", "metadata"}

\* C19: in every run of process_model the stages entered are an initial
\* part of Fetching, Classifying, model file, images, HTML, metadata, each
\* at most once; a run that is over has exactly one result, a success after
\* all six stages or a failure.
C19_StagesInOrder ==
    /\ \A i \in 1..Len(model_list) :
         /\ Len(StageSeq(i)) <= Len(StageOrder)
         /\ StageSeq(i) = SubSeq(StageOrder, 1, Len(StageSeq(i)))
    /\ ~InProcessModel => Len(results) = idx
    /\ \A c \in 1..Len(calls) :
         LET i == calls[c][1]
         IN  (i < idx \/ ~InProcessModel) =>
               /\ Len(StageSeq(i)) >= 1
               /\ results[i].success \in BOOLEAN
               /\ results[i].success => StageSeq(i) = StageOrder

\* A batch that returned with one run through all six stages to a success
\* and one run that failed in its third stage.
C19_Witness ==
    /\ pc = "returned"
    /\ \E i, j \in 1..Len(results) :
         /\ StageSeq(i) = StageOrder /\ results[i].success
         /\ Len(StageSeq(j)) = 3 /\ ~results[j].success

(***************************************************************************)
(* downloader.py: download_model_file on bounded lists of file             *)
(* descriptors.  arg is [files, outcome], outcome being what download_file *)
(* does when it is called.                                                 *)
(***************************************************************************)
MaxFiles == 3

FileTypes == {"Model", "Training Data"}

FileNames == {"a.safetensors", "b.ckpt", "c.safetensors", Absent}

FileUrl(n) == "https://d/" \o n

FileDescs == {FileDesc(t, n, FileUrl(n)) : t \in FileTypes, n \in FileNames}

SelectInputs ==
    [files : SeqsUpTo(FileDescs, MaxFiles), outcome : DownloadOutcomes]

\* One call of download_model_file: ret.raised tells whether an exception
\* left it, ret.value is the value returned, ret.downloads the descriptors
\* handed to download_file.
CallSelect ==
    /\ fn = "download_model_file" /\ pc = "idle"
    /\ pc' = "returned"
    /\ LET version == [files |-> arg.files]
           n       == select_model_file(arg.files)
       IN  ret' =
             IF download_model_file_raises(version)
             THEN [raised |-> TRUE, value |-> None, downloads |-> <<>>]
             ELSE [raised |-> FALSE,
                   value |-> download_model_file(version, arg.outcome),
                   downloads |-> IF n > 0 THEN <<arg.files[n]>> ELSE <<>>]
    /\ UNCHANGED <<fn, arg, model_list, idx, results, cur, dirs, files, sidecars,
                   requests, writes, stages, calls, raised>>

SpecSelect == InitCall("download_model_file", SelectInputs) /\ [][CallSelect]_vars

ModelTyped(fs) == {i \in 1..Len(fs) : fs[i].type = "Model"}

SafetensorsModels(fs) ==
    {i \in ModelTyped(fs) : fs[i].name # Absent /\ EndsWith(fs[i].name, ".safetensors")}

\* The descriptor the policy names: 0 when there is none.
PolicyChoice(fs) ==
    IF SafetensorsModels(fs) # {} THEN SetMin(SafetensorsModels(fs))
    ELSE IF ModelTyped(fs) # {} THEN SetMin(ModelTyped(fs))
    ELSE 0

\* C20: among descriptors that carry a name, download_model_file downloads
\* the first "Model" descriptor named *.safetensors, else the first "Model"
\* descriptor, and nothing else; it returns the name when the download
\* succeeds.  Without a "Model" descriptor it downloads nothing and returns
\* None without raising.
C20_SelectionPolicy ==
    (fn = "download_model_file" /\ pc = "returned") =>
        /\ (\A i \in ModelTyped(arg.files) : arg.files[i].name # Absent) =>
             /\ ~ret.raised
             /\ ret.downloads = IF PolicyChoice(arg.files) = 0 THEN <<>>
                                ELSE <<arg.files[PolicyChoice(arg.files)]>>
             /\ ret.value = IF PolicyChoice(arg.files) > 0 /\ arg.outcome = "ok"
                            THEN arg.files[PolicyChoice(arg.files)].name
                            ELSE None
        /\ ModelTyped(arg.files) = {} =>
             ~ret.raised /\ ret.value = None /\ ret.downloads = <<>>

\* A training-data archive, a checkpoint and a safetensors file, in that
\* order: the third descriptor is downloaded.
C20_Witness ==
    /\ fn = "download_model_file" /\ pc = "returned"
    /\ arg.files = <<FileDesc("Training Data", "a.safetensors", FileUrl("a.safetensors")),
                     FileDesc("Model", "b.ckpt", FileUrl("b.ckpt")),
                     FileDesc("Model", "c.safetensors", FileUrl("c.safetensors"))>>
    /\ arg.outcome = "ok"
    /\ ret.value = "c.safetensors"
    /\ ret.downloads = <<arg.files[3]>>

(***************************************************************************)
(* downloader.py: download_images on bounded image lists.  arg is          *)
(* [images, max_images, outs], outs giving what download_file does for     *)
(* each download attempted.                                                *)
(***************************************************************************)
MaxImageList == 4

ImageUrls == {None, "https://i/a.PNG", "https://i/b"}

ImagesTargetDir == "N:/Models/Other/Lora/X_1_1"

ImageInputs ==
    UNION {UNION {{[images |-> images, max_images |-> max_images, outs |-> outs] :
                      outs \in [attempted_images(images, max_images) -> DownloadOutcomes]} :
                  max_images \in {1, MAX_PREVIEW_IMAGES}} :
           images \in SeqsUpTo({ImageDesc(u) : u \in ImageUrls}, MaxImageList)}

\* One call of download_images: ret.value is the list returned,
\* ret.attempts the calls of download_file as <<position, url, path>>.
CallDownloadImages ==
    /\ fn = "download_images" /\ pc = "idle"
    /\ pc' = "returned"
    /\ LET order == Ascending(attempted_images(arg.images, arg.max_images))
       IN  ret' = [value |-> download_images(arg.images, ImagesTargetDir,
                                             arg.max_images, arg.outs),
                   attempts |-> [k \in 1..Len(order) |->
                                   <<order[k], arg.images[order[k]].url,
                                     ImagesTargetDir \o "/"
                                        \o image_filename(order[k],
                                                          arg.images[order[k]].url)>>]]
    /\ UNCHANGED <<fn, arg, model_list, idx, results, cur, dirs, files, sidecars,
                   requests, writes, stages, calls, raised>>

SpecImages == InitCall("download_images", ImageInputs) /\ [][CallDownloadImages]_vars

\* The attempts whose download succeeded, in the order made.
SavedAttempts(attempts, outs) ==
    LET Ok(a) == outs[a[1]] = "ok"
    IN  SelectSeq(attempts, Ok)

\* C21: download_images attempts every entry among the first max_images
\* that has a URL, in list order and once each, whatever the outcome of the
\* earlier attempts; it returns the paths of the successful attempts in
\* that order, at most max_images of them.
C21_EveryImageAttempted ==
    (fn = "download_images" /\ pc = "returned") =>
        /\ \A k \in 1..Len(ret.attempts) :
             /\ ret.attempts[k][1] \in 1..Len(arg.images)
             /\ ret.attempts[k][1] <= arg.max_images
             /\ ret.attempts[k][2] = arg.images[ret.attempts[k][1]].url
             /\ ret.attempts[k][2] \notin {None, ""}
             /\ k > 1 => ret.attempts[k - 1][1] < ret.attempts[k][1]
        /\ \A n \in 1..Len(arg.images) :
             (n <= arg.max_images /\ arg.images[n].url \notin {None, ""}) =>
                 \E k \in 1..Len(ret.attempts) : ret.attempts[k][1] = n
        /\ LET saved == SavedAttempts(ret.attempts, arg.outs)
           IN  /\ Len(ret.value) = Len(saved)
               /\ \A k \in 1..Len(saved) : ret.value[k] = saved[k][3]
        /\ Len(ret.value) <= arg.max_images

\* Four entries with max_images 3: the first download fails, the second
\* entry has no URL, the third is saved, the fourth is never attempted.
C21_Witness ==
    /\ fn = "download_images" /\ pc = "returned"
    /\ arg.images = <<ImageDesc("https://i/a.PNG"), ImageDesc(None),
                      ImageDesc("https://i/b"), ImageDesc("https://i/a.PNG")>>
    /\ arg.max_images = 3
    /\ arg.outs[1] = "request_error" /\ arg.outs[3] = "ok"
    /\ Len(ret.attempts) = 2
    /\ ret.value = <<ImagesTargetDir \o "/preview_03.jpg">>

(***************************************************************************)
(* C22: the partial match of get_base_model_key.                           *)
(***************************************************************************)
\* Entry n of the alias table matches s in one direction or the other.
EntryMatches(n, s) ==
    \/ Contains(s, BASE_MODEL_MAPPINGS[n][1])
    \/ Contains(BASE_MODEL_MAPPINGS[n][1], s)

\* C22: a base-model string that, lower-cased and trimmed, is not empty and
\* is no key of the alias table gets the value of the first entry, in the
\* table's order, whose key it contains or is contained in, and "unknown"
\* exactly when there is no such entry.
C22_FirstPartialMatch ==
    (Called /\ IsString(arg.baseModel)) =>
        LET s == Strip(Lower(arg.baseModel))
            is_key == \E n \in 1..Len(BASE_MODEL_MAPPINGS) : BASE_MODEL_MAPPINGS[n][1] = s
        IN  (s # "" /\ ~is_key) =>
              /\ \A n \in 1..Len(BASE_MODEL_MAPPINGS) :
                   (EntryMatches(n, s) /\ \A m \in 1..(n - 1) : ~EntryMatches(m, s))
                       => ret = BASE_MODEL_MAPPINGS[n][2]
              /\ ret = "unknown" <=>
                   \A n \in 1..Len(BASE_MODEL_MAPPINGS) : ~EntryMatches(n, s)

\* "Flux" is part of the keys of both FLUX variants and of no key's input;
\* the entry defined first decides.
C22_Witness ==
    /\ Called
    /\ arg.baseModel = "Flux"
    /\ EntryMatches(1, "flux") /\ EntryMatches(2, "flux")
    /\ BASE_MODEL_MAPPINGS[1][2] # BASE_MODEL_MAPPINGS[2][2]
    /\ ret = "flux.1 [dev]"

(***************************************************************************)
(* C23: the manifest in the sidecar.                                       *)
(***************************************************************************)
\* Run i is the last one that wrote path p.
LastWriter(i, p) ==
    /\ Wrote(i, p)
    /\ \A k \in 1..Len(writes) : writes[k][2] = p => writes[k][1] <= i

\* The successful downloads of kind in run i, in the order made.
SavedRequests(i, kind) ==
    LET Ok(r) == r[1] = i /\ r[2] = kind /\ r[4]
    IN  SelectSeq(requests, Ok)

HtmlWritten(i) == \E k \in WritesOf(i) : EndsWith(writes[k][2], "_info.html")

\* C23: the manifest in a sidecar, as written by the run that wrote it
\* last, has model_file exactly when that run's model file download
\* succeeded, images exactly when at least one of its image downloads
\* succeeded, with one name per saved image, each the name of a file the
\* run wrote beside the sidecar, html_info exactly when the run wrote its
\* HTML page, and no other key.
C23_SidecarManifest ==
    \A p \in DOMAIN sidecars : \A i \in 1..idx :
        LastWriter(i, p) =>
            LET m == sidecars[p]
            IN  /\ DOMAIN m \subseteq {"model_file", "images", "html_info"}
                /\ "model_file" \in DOMAIN m <=> SavedRequests(i, "model_file") # <<>>
                /\ "model_file" \in DOMAIN m =>
                      Wrote(i, ParentDir(p) \o "/" \o m["model_file"])
                /\ "images" \in DOMAIN m <=> SavedRequests(i, "image") # <<>>
                /\ "images" \in DOMAIN m =>
                      /\ Len(m["images"]) = Len(SavedRequests(i, "image"))
                      /\ \A k \in 1..Len(m["images"]) :
                           Wrote(i, ParentDir(p) \o "/" \o m["images"][k])
                /\ "html_info" \in DOMAIN m <=> HtmlWritten(i)
                /\ "html_info" \in DOMAIN m =>
                      Wrote(i, ParentDir(p) \o "/" \o m["html_info"])

\* The run for model 2 got no model file (its version has training data
\* only), saved the one preview image that has a URL and wrote the page:
\* the sidecar lists the image and the page.
C23_Witness ==
    /\ pc = "returned"
    /\ \E p \in DOMAIN sidecars :
         /\ DOMAIN sidecars[p] = {"images", "html_info"}
         /\ sidecars[p]["images"] = <<"preview_02.png">>
         /\ LastWriter(1, p)
         /\ SavedRequests(1, "model_file") = <<>>

(***************************************************************************)
(* C24: failed writes of the page and of the sidecar.                      *)
(***************************************************************************)
SidecarWritten(i) == \E k \in WritesOf(i) : EndsWith(writes[k][2], "_metadata.json")

\* C24: a run that reached the HTML stage and raised nothing returns a
\* success whether or not its two writes succeeded: the metadata stage is
\* entered also after a failed HTML write, and the result's manifest has
\* html_info exactly when the page was written and metadata exactly when
\* the sidecar was written.
C24_WriteFailureIsNotFatal ==
    \A i \in 1..Len(results) :
        ("Documenting" \in StagesOf(i) /\ RaisedIn(i) = {}) =>
            /\ "Persisting" \in StagesOf(i)
            /\ results[i].success = TRUE
            /\ "html_info" \in DOMAIN results[i].downloaded_files <=> HtmlWritten(i)
            /\ "metadata" \in DOMAIN results[i].downloaded_files <=> SidecarWritten(i)

\* The model file of Foo Bar came down, then both writes failed: the run is
\* a success whose manifest holds the model file only.
C24_Witness ==
    /\ pc = "returned"
    /\ Len(results) >= 1
    /\ results[1].success = TRUE
    /\ "Documenting" \in StagesOf(1) /\ "Persisting" \in StagesOf(1)
    /\ ~HtmlWritten(1) /\ ~SidecarWritten(1)
    /\ DOMAIN results[1].downloaded_files = {"model_file"}
    /\ sidecars = EmptyDict

(***************************************************************************)
(* C25-C27: the worker threads of GUIDownloadManager.                      *)
(***************************************************************************)
\* C25 as claimed: at most one worker thread is alive at any time, and
\* is_busy() is true while one is.
C25_OneWorkerAndBusy ==
    InGui =>
        /\ Cardinality(AliveWorkers(ret)) <= 1
        /\ AliveWorkers(ret) # {} => is_busy(ret)

\* stop_download gave up its join and cleared is_downloading while the
\* worker was alive: is_busy() is false, and the next start_download has
\* put a second worker beside the first.
C25_Witness ==
    /\ InGui
    /\ AliveWorkers(ret) = {1, 2}
    /\ ret.stop_requested = {1}
    /\ is_busy(ret)

C27_EveryUrlAccounted ==
    (InGui /\ ret.workers # <<>> /\ AliveWorkers(ret) = {} /\ ret.stop_requested = {}) =>
        /\ ~ret.is_downloading
        /\ ret.stats.completed + ret.stats.failed = ret.stats.total

\* The worker of a queue of two URLs has ended after the constructor call
\* raised: nothing was processed or counted.
C27_Witness ==
    /\ InGui
    /\ Len(arg) = 2
    /\ ret.workers = <<"done">>
    /\ ret.stop_requested = {}
    /\ ~ret.is_downloading
    /\ ret.stats = [total |-> 2, completed |-> 0, failed |-> 0, current_model |-> ""]
    /\ ret.processor = None

(***************************************************************************)
(* C28: the target path after a failed download.                           *)
(***************************************************************************)
\* The requests a step has added to the log.
NewRequests == SubSeq(requests', Len(requests) + 1, Len(requests'))

IsDownload(r) == r[2] \in {"model_file", "image"}

\* C28 as claimed: a step in which every call of download_file returned
\* False leaves every file as it was: none is created, truncated or left
\* partially written.
C28_FailedDownloadChangesNothing ==
    [][(/\ Len(requests') > Len(requests)
        /\ \A k \in 1..Len(NewRequests) :
             IsDownload(NewRequests[k]) /\ ~NewRequests[k][4])
           => files' = files]_vars

\* The first run saved foo.safetensors; the download of the same file in
\* the second run broke off, and the file is now a partial one.
C28_Witness ==
    /\ pc = "returned"
    /\ Requested(1, "model_file", "https://d/9", TRUE)
    /\ Requested(2, "model_file", "https://d/9", FALSE)
    /\ FooBarDir \o "/foo.safetensors" \in DOMAIN files
    /\ files[FooBarDir \o "/foo.safetensors"] = "partial"

(***************************************************************************)
(* C29: references that name a version.  The batch is run on URLs with a   *)
(* modelVersionId, with and without a name slug after the model id.        *)
(***************************************************************************)
VersionedReferences ==
    { UrlItem("https://civitai.com/models/2?modelVersionId=7"),
      UrlItem("https://civitai.com/models/2/a-b-c?modelVersionId=7"),
      UrlItem("https://civitai.com/models/1/foo-bar?modelVersionId=9") }

InitVersioned ==
    /\ model_list \in SeqsUpTo(VersionedReferences, MaxBatch)
    /\ pc = "loop"
    /\ BatchIdle
    /\ NoCall

SpecVersioned == InitVersioned /\ [][Next]_vars

\* The digits after "modelVersionId=" in url; None when it has no such
\* parameter.
QueryVersionId(url) ==
    LET name == "modelVersionId="
        at   == {i \in 1..Len(url) : Slice(url, i, i + Len(name) - 1) = name}
    IN  IF at = {} THEN None
        ELSE LET v == SetMin(at) + Len(name)
             IN  IF DigitRun(url, v) = 0 THEN None
                 ELSE SubSeq(url, v, v + DigitRun(url, v) - 1)

\* C29 as claimed: for a URL with a modelVersionId parameter the version
\* fetched is that one.
C29_NamedVersionProcessed ==
    \A i \in 1..idx :
        (model_list[i].kind = "str" /\ QueryVersionId(model_list[i].url) # None) =>
            \A k \in RequestsOf(i) :
                requests[k][2] = "version" =>
                    requests[k][3] = BASE_URL \o "/model-versions/"
                                        \o QueryVersionId(model_list[i].url)

\* The URL with a slug names version 7 of model 2; the run fetched version
\* 8, the first the model lists, and returned a success for it.
C29_Witness ==
    /\ pc = "returned"
    /\ model_list = <<UrlItem("https://civitai.com/models/2/a-b-c?modelVersionId=7")>>
    /\ calls = <<<<1, "2", None>>>>
    /\ Requested(1, "version", BASE_URL \o "/model-versions/8", TRUE)
    /\ results[1].success = TRUE
    /\ results[1].version_id = 8

(***************************************************************************)
(* gui/url_components.py: the URL queue of UrlInputFrame.  fn is           *)
(* "UrlInputFrame"; ret holds the listbox (queue), the URLs that           *)
(* _add_urls has inserted so far (from_input) and the status line.         *)
(***************************************************************************)
MaxQueue == 3

QueueUrls ==
    {"https://civitai.com/models/1",
     "http://civitai.com/models/12/slug?modelVersionId=7",
     "https://civitai.com/models/",
     "civitai.com/models/3"}

\* Lines of the text widget: the URLs, one of them with blanks around it,
\* and an empty line.
InputLines == QueueUrls \cup {"", " https://civitai.com/models/1\t"}

\* What the text widget can hold when Add URLs is pressed: nothing, one
\* line or two lines.
InputTexts ==
    {<<>>} \cup {<<l>> : l \in InputLines} \cup {<<l, m>> : l, m \in InputLines}

\* Faulty variant: any text that names the site counts as valid.
is_valid_civitai_url_by_host(url) == Contains(url, "civitai.com/")

\* _is_valid_civitai_url: re.match(r'https?://civitai\.com/models/\d+(?:\?.*)?', url).
\* The match is anchored at the start only, so what follows the digits
\* does not matter.
is_valid_civitai_url(url) ==
    \E scheme \in {"http://", "https://"} :
        LET prefix == scheme \o "civitai.com/models/"
        IN  /\ Slice(url, 1, Len(prefix)) = prefix
            /\ DigitRun(url, Len(prefix) + 1) >= 1

\* Lines 209-210: the non-empty lines of the text, stripped.
input_urls(lines) ==
    LET stripped == [k \in 1..Len(lines) |-> Strip(lines[k])]
    IN  SelectSeq(stripped, LAMBDA u : u # "")

InQueue(queue, url) == \E k \in 1..Len(queue) : queue[k] = url

\* The loop of lines 222-229 over urls[i..]: the URLs to insert, in order.
RECURSIVE valid_urls(_, _, _)
valid_urls(urls, i, existing_urls) ==
    IF i > Len(urls) THEN <<>>
    ELSE IF urls[i] \in existing_urls THEN valid_urls(urls, i + 1, existing_urls)
    ELSE IF is_valid_civitai_url(urls[i])
         THEN <<urls[i]>> \o valid_urls(urls, i + 1, existing_urls \cup {urls[i]})
    ELSE valid_urls(urls, i + 1, existing_urls)

QueueStart == [queue |-> <<>>, from_input |-> {}, status |-> ""]

InitQueue == fn = "UrlInputFrame" /\ arg = None /\ ret = QueueStart /\ NoBatch

\* _add_urls, lines 199-254.
AddUrls ==
    /\ fn = "UrlInputFrame"
    /\ \E placeholder_active \in BOOLEAN :
         IF placeholder_active THEN ret' = ret
         ELSE \E lines \in InputTexts :
                LET urls  == input_urls(lines)
                    valid == valid_urls(urls, 1, {ret.queue[k] : k \in 1..Len(ret.queue)})
                IN  /\ Len(ret.queue) + Len(valid) <= MaxQueue
                    /\ ret' =
                         IF urls = <<>>
                         THEN [ret EXCEPT !.status = "No URLs entered"]
                         ELSE [ret EXCEPT
                                 !.queue = @ \o valid,
                                 !.from_input = @ \cup {valid[k] : k \in 1..Len(valid)},
                                 !.status = IF valid # <<>> THEN "Added"
                                            ELSE "Nothing added"]
    /\ UNCHANGED <<fn, arg, batch_vars>>

\* add_url_programmatically, lines 344-348.
AddUrlProgrammatically ==
    /\ fn = "UrlInputFrame"
    /\ Len(ret.queue) < MaxQueue
    /\ \E url \in QueueUrls \cup {"", None} :
         ret' = IF ~Falsy(url) /\ ~InQueue(ret.queue, url)
                THEN [ret EXCEPT !.queue = Append(@, url)]
                ELSE ret
    /\ UNCHANGED <<fn, arg, batch_vars>>

\* _remove_selected, lines 314-326.
RemoveSelected ==
    /\ fn = "UrlInputFrame"
    /\ \E selected \in SUBSET (1..Len(ret.queue)) :
         ret' = IF selected = {}
                THEN [ret EXCEPT !.status = "No URLs selected"]
                ELSE [ret EXCEPT
                        !.queue = LET keep == Ascending((1..Len(ret.queue)) \ selected)
                                  IN  [k \in 1..Len(keep) |-> ret.queue[keep[k]]],
                        !.status = "Removed"]
    /\ UNCHANGED <<fn, arg, batch_vars>>

\* _clear_all, lines 328-333.
ClearAll ==
    /\ fn = "UrlInputFrame"
    /\ ret' = [ret EXCEPT !.queue = <<>>, !.status = "Cleared"]
    /\ UNCHANGED <<fn, arg, batch_vars>>

NextQueue ==
    \/ AddUrls
    \/ AddUrlProgrammatically
    \/ RemoveSelected
    \/ ClearAll

SpecQueue == InitQueue /\ [][NextQueue]_vars

\* C30: the queue never holds a URL twice, and every URL that _add_urls
\* has inserted begins with http(s)://civitai.com/models/ and a digit and
\* gives a non-empty model id with parse_model_url.
C30_QueueWellFormed ==
    fn = "UrlInputFrame" =>
        /\ \A j, k \in 1..Len(ret.queue) : ret.queue[j] = ret.queue[k] => j = k
        /\ \A u \in ret.from_input :
             /\ \/ Slice(u, 1, 27) = "https://civitai.com/models/" /\ DigitRun(u, 28) >= 1
                \/ Slice(u, 1, 26) = "http://civitai.com/models/" /\ DigitRun(u, 27) >= 1
             /\ parse_model_url(u)[1] \notin {None, ""}

\* A URL without scheme was added programmatically; the input box then got
\* the URL of model 1, with blanks around it, and a URL with a slug: the
\* queue holds three different URLs, two of them from the input box.
C30_Witness ==
    /\ fn = "UrlInputFrame"
    /\ ret.queue = <<"civitai.com/models/3", "https://civitai.com/models/1",
                     "http://civitai.com/models/12/slug?modelVersionId=7">>
    /\ ret.from_input = {"https://civitai.com/models/1",
                         "http://civitai.com/models/12/slug?modelVersionId=7"}

=============================================================================
